---- MODULE Spec2Model ----
(***************************************************************************)
(* Vaultix milestone escrow contract (apps/onchain/src/lib.rs).            *)
(*                                                                         *)
(* The state is what the ledger host keeps for the contract: its instance  *)
(* storage (treasury, fee_bps), its persistent storage (one Escrow per     *)
(* escrow_id), the balances of the token contracts it transfers in, the    *)
(* events published by the last invocation and its outcome.  Every public  *)
(* function is one action: the host runs an invocation atomically and      *)
(* rolls back every write, transfer and event of an invocation that        *)
(* returns Err or panics.  A client reads the outcome of its invocation    *)
(* before the next one is submitted (Acknowledge).  sums is the running    *)
(* total of fees and payouts that a client driving release_milestone keeps *)
(* beside the balances (ReleaseSpec).                                      *)
(***************************************************************************)
EXTENDS Integers, Sequences, FiniteSets

VARIABLES instance, persistent, balances, events, result, sums

vars == <<instance, persistent, balances, events, result, sums>>

(***************************************************************************)
(* Program constants.                                                      *)
(***************************************************************************)
DEFAULT_FEE_BPS == 50
BPS_DENOMINATOR == 10000
MAX_MILESTONES == 20

(***************************************************************************)
(* Bounds of the model.                                                    *)
(***************************************************************************)
\* largest value of the signed integer type of amounts (i128, narrowed)
I128_MAX == 1073741823
\* longest milestone vector handed to create_escrow
MaxLen == 2
\* tokens minted to the depositor before the first invocation: of tokA, of tokB
MintA == 300
MintB == 100

\* longest vector of the enumerated ones handed to create_escrow in ValidateSpec
ValidateLen == 3

EscrowIds == {1, 2}
Users == {"alice", "bob", "carol"}
Holding == "contract"
Accounts == Users \cup {Holding}
Tokens == {"tokA", "tokB"}
Minted == [t \in Tokens |-> IF t = "tokA" THEN MintA ELSE MintB]
Depositors == {"alice"}
Recipients == {"alice", "bob"}
Treasuries == {"bob", "carol"}
FeeInputs == {-1, 50, 10000, 10001}
\* the identities whose authorization proof an invocation carries
AuthSets == {{u} : u \in Users}

None == [some |-> FALSE]
Some(v) == [some |-> TRUE, val |-> v]

MilestoneStatus == {"Pending", "Released", "Disputed"}
EscrowStatus == {"Active", "Completed", "Cancelled"}

Milestone(amount, status, description) ==
    [amount |-> amount, status |-> status, description |-> description]

\* the milestones a caller puts into the vector handed to create_escrow
MilestoneInputs ==
    {Milestone(100, "Disputed", "work"),
     Milestone(300, "Released", "work"), Milestone(0, "Pending", "work"),
     Milestone(-100, "Pending", "work")}

\* Vec<Milestone> values of length 0..MaxLen
MilestoneVecs == UNION {[1..n -> MilestoneInputs] : n \in 0..MaxLen}

\* the milestones of the vectors of ValidateSpec: a positive amount with a
\* status that is not Pending, zero, a negative amount, the largest amount
ValidateInputs ==
    {Milestone(100, "Released", "work"), Milestone(0, "Pending", "work"),
     Milestone(-1, "Disputed", "work"), Milestone(I128_MAX, "Pending", "work")}

\* every vector of length 0..ValidateLen, and the vectors at and just above
\* the length limit, of unit and of zero amounts
LongVecs ==
    UNION {[1..n -> ValidateInputs] : n \in 0..ValidateLen}
    \cup {[i \in 1..n |-> Milestone(a, "Released", "work")] :
             n \in {MAX_MILESTONES, MAX_MILESTONES + 1}, a \in {0, 1}}

\* a fee rate at which a payout can succeed and the fee transfer then fail
AbortFeeInputs == {-1, 7500}

(***************************************************************************)
(* Outcomes of an invocation: Ok with the new state and the returned       *)
(* value, a contract error, or a panic (failed require_auth, failed token  *)
(* transfer).                                                              *)
(***************************************************************************)
Ok(st, v) == [res |-> "Ok", st |-> st, val |-> v]
Err(e) == [res |-> e]
AuthPanic == [res |-> "AuthPanic"]
TransferPanic == [res |-> "TransferPanic"]
\* a failure reached after writes: st is the state those writes had produced
Aborted(kind, st) == [res |-> kind, st |-> st]
Unit == "unit"

\* i128::checked_add / checked_sub / checked_mul / checked_div
\* (the range test is made without forming a sum outside the range)
\* two's-complement addition that wraps around instead of reporting overflow
checked_add_wrapping(a, b) ==
    IF b > 0 /\ a > I128_MAX - b
    THEN Some((a - I128_MAX - 1) + (b - I128_MAX - 1))
    ELSE IF b < 0 /\ a < (-I128_MAX - 1) - b
    THEN Some((a + I128_MAX + 1) + (b + I128_MAX + 1))
    ELSE Some(a + b)

checked_add(a, b) ==
    IF b > 0 /\ a > I128_MAX - b THEN None
    ELSE IF b < 0 /\ a < (-I128_MAX - 1) - b THEN None
    ELSE Some(a + b)
checked_sub(a, b) ==
    IF b < 0 /\ a > I128_MAX + b THEN None
    ELSE IF b > 0 /\ a < (-I128_MAX - 1) + b THEN None
    ELSE Some(a - b)
Abs(a) == IF a < 0 THEN -a ELSE a
checked_mul(a, b) ==
    IF b # 0 /\ Abs(a) > I128_MAX \div Abs(b) THEN None ELSE Some(a * b)
\* Rust's integer division truncates toward zero
checked_div(a, b) ==
    IF b = 0 THEN None
    ELSE IF (a < 0) = (b < 0) THEN Some(Abs(a) \div Abs(b))
    ELSE Some(-(Abs(a) \div Abs(b)))

\* one storage key for every escrow_id
get_storage_key_shared(escrow_id) == 1

get_storage_key(escrow_id) == escrow_id

has_never(storage, storage_key) == FALSE

\* env.storage().persistent().has(&storage_key)
has(storage, storage_key) == storage[storage_key].some

is_released_never(milestone) == FALSE

\* the "already released" test of both payout entry points
is_released(milestone) == milestone.status = "Released"

\* transfers and reports a fee of zero as well
fee_due_always(fee) == fee >= 0

fee_due_above_one(fee) == fee > 1

\* the treasury transfer and its event are skipped for a zero fee
fee_due(fee) == fee > 0

mark_released_stale_total(escrow, milestone_index) ==
    Some([escrow EXCEPT !.milestones[milestone_index + 1].status = "Released"])

\* the milestone marked Released and its amount added to total_released
mark_released(escrow, milestone_index) ==
    LET milestone == escrow.milestones[milestone_index + 1]
        total == checked_add(escrow.total_released, milestone.amount)
    IN IF ~total.some THEN None
       ELSE Some([escrow EXCEPT
                    !.milestones[milestone_index + 1].status = "Released",
                    !.total_released = total.val])

\* token transfer: panics on a negative amount or an insufficient balance
CanTransfer(bal, token, from, amount) ==
    amount >= 0 /\ bal[token][from] >= amount

Transfer(bal, token, from, to, amount) ==
    LET debited == [bal EXCEPT ![token][from] = @ - amount]
    IN [debited EXCEPT ![token][to] = @ + amount]

RECURSIVE SumFrom_zero_allowed(_, _, _)
\* rejects negative amounts only
SumFrom_zero_allowed(milestones, i, total) ==
    IF i > Len(milestones) THEN [res |-> "Ok", total |-> total]
    ELSE IF milestones[i].amount < 0 THEN Err("ZeroAmount")
    ELSE LET t == checked_add(total, milestones[i].amount)
         IN IF ~t.some THEN Err("InvalidMilestoneAmount")
            ELSE SumFrom_zero_allowed(milestones, i + 1, t.val)

RECURSIVE SumFrom(_, _, _)
\* the loop of validate_milestones from position i with running total
SumFrom(milestones, i, total) ==
    IF i > Len(milestones) THEN [res |-> "Ok", total |-> total]
    ELSE IF milestones[i].amount <= 0 THEN Err("ZeroAmount")
    ELSE LET t == checked_add(total, milestones[i].amount)
         IN IF ~t.some THEN Err("InvalidMilestoneAmount")
            ELSE SumFrom(milestones, i + 1, t.val)

validate_milestones_skip_first(milestones) ==
    IF Len(milestones) > MAX_MILESTONES THEN Err("VectorTooLarge")
    ELSE SumFrom(milestones, 2, 0)

\* rejects a vector of exactly MAX_MILESTONES milestones
validate_milestones_cap_exclusive(milestones) ==
    IF Len(milestones) >= MAX_MILESTONES THEN Err("VectorTooLarge")
    ELSE SumFrom(milestones, 1, 0)

validate_milestones(milestones) ==
    IF Len(milestones) > MAX_MILESTONES THEN Err("VectorTooLarge")
    ELSE SumFrom(milestones, 1, 0)

verify_all_released_any(milestones) ==
    \E i \in 1..Len(milestones) : milestones[i].status = "Released"

verify_all_released(milestones) ==
    \A i \in 1..Len(milestones) : milestones[i].status = "Released"

\* rounds to the nearest unit instead of truncating
calculate_fee_rounded(amount, fee_bps) ==
    LET fee_numerator == checked_mul(amount, fee_bps)
    IN IF ~fee_numerator.some THEN Err("InvalidMilestoneAmount")
       ELSE [res |-> "Ok",
             fee |-> (fee_numerator.val + BPS_DENOMINATOR \div 2) \div BPS_DENOMINATOR]

calculate_fee(amount, fee_bps) ==
    LET fee_numerator == checked_mul(amount, fee_bps)
    IN IF ~fee_numerator.some THEN Err("InvalidMilestoneAmount")
       ELSE LET fee == checked_div(fee_numerator.val, BPS_DENOMINATOR)
            IN IF ~fee.some THEN Err("InvalidMilestoneAmount")
               ELSE [res |-> "Ok", fee |-> fee.val]

(***************************************************************************)
(* The public functions, as functions of the state st before the call, the *)
(* arguments and the set auth of identities with an authorization proof.   *)
(***************************************************************************)
\* refuses to replace a stored config
initialize_guarded(st, treasury, fee_bps, auth) ==
    IF treasury \notin auth THEN AuthPanic
    ELSE IF st.instance.treasury.some THEN Err("UnauthorizedAccess")
    ELSE LET fee == IF fee_bps.some THEN fee_bps.val ELSE DEFAULT_FEE_BPS
         IN IF ~(0 <= fee /\ fee <= BPS_DENOMINATOR) THEN Err("InvalidFeeConfiguration")
            ELSE Ok([st EXCEPT !.instance =
                        [treasury |-> Some(treasury), fee_bps |-> Some(fee)]], Unit)

\* tests the upper end of the fee range only
initialize_no_lower_bound(st, treasury, fee_bps, auth) ==
    IF treasury \notin auth THEN AuthPanic
    ELSE LET fee == IF fee_bps.some THEN fee_bps.val ELSE DEFAULT_FEE_BPS
         IN IF fee > BPS_DENOMINATOR THEN Err("InvalidFeeConfiguration")
            ELSE Ok([st EXCEPT !.instance =
                        [treasury |-> Some(treasury), fee_bps |-> Some(fee)]], Unit)

\* stores the default rate whatever rate is given
initialize_default_fee(st, treasury, fee_bps, auth) ==
    IF treasury \notin auth THEN AuthPanic
    ELSE LET fee == IF fee_bps.some THEN fee_bps.val ELSE DEFAULT_FEE_BPS
         IN IF ~(0 <= fee /\ fee <= BPS_DENOMINATOR) THEN Err("InvalidFeeConfiguration")
            ELSE Ok([st EXCEPT !.instance =
                        [treasury |-> Some(treasury), fee_bps |-> Some(DEFAULT_FEE_BPS)]], Unit)

initialize(st, treasury, fee_bps, auth) ==
    IF treasury \notin auth THEN AuthPanic
    ELSE LET fee == IF fee_bps.some THEN fee_bps.val ELSE DEFAULT_FEE_BPS
         IN IF ~(0 <= fee /\ fee <= BPS_DENOMINATOR) THEN Err("InvalidFeeConfiguration")
            ELSE Ok([st EXCEPT !.instance =
                        [treasury |-> Some(treasury), fee_bps |-> Some(fee)]], Unit)

\* lets any caller set the rate
update_fee_any_caller(st, new_fee_bps, auth) ==
    IF ~st.instance.treasury.some THEN Err("TreasuryNotInitialized")
    ELSE IF ~(0 <= new_fee_bps /\ new_fee_bps <= BPS_DENOMINATOR)
         THEN Err("InvalidFeeConfiguration")
    ELSE Ok([st EXCEPT !.instance.fee_bps = Some(new_fee_bps)], Unit)

update_fee(st, new_fee_bps, auth) ==
    IF ~st.instance.treasury.some THEN Err("TreasuryNotInitialized")
    ELSE IF st.instance.treasury.val \notin auth THEN AuthPanic
    ELSE IF ~(0 <= new_fee_bps /\ new_fee_bps <= BPS_DENOMINATOR)
         THEN Err("InvalidFeeConfiguration")
    ELSE Ok([st EXCEPT !.instance.fee_bps = Some(new_fee_bps)], Unit)

\* falls back to the contract itself and the default rate when no treasury is stored
get_config_unchecked(st) ==
    LET treasury == IF st.instance.treasury.some THEN st.instance.treasury.val ELSE Holding
        fee_bps == IF st.instance.fee_bps.some THEN st.instance.fee_bps.val
                   ELSE DEFAULT_FEE_BPS
    IN Ok(st, <<treasury, fee_bps>>)

get_config(st) ==
    IF ~st.instance.treasury.some THEN Err("TreasuryNotInitialized")
    ELSE LET fee_bps == IF st.instance.fee_bps.some THEN st.instance.fee_bps.val
                        ELSE DEFAULT_FEE_BPS
         IN Ok(st, <<st.instance.treasury.val, fee_bps>>)

\* stores the milestones with the statuses the caller supplied
create_escrow_keeps_statuses(st, escrow_id, depositor, recipient, milestones, token, auth) ==
    LET storage_key == get_storage_key(escrow_id)
        validated == validate_milestones(milestones)
    IN IF depositor \notin auth THEN AuthPanic
       ELSE IF depositor = recipient THEN Err("SelfDealing")
       ELSE IF has(st.persistent, storage_key) THEN Err("EscrowAlreadyExists")
       ELSE IF validated.res # "Ok" THEN validated
       ELSE LET escrow == [depositor |-> depositor,
                           recipient |-> recipient,
                           total_amount |-> validated.total,
                           total_released |-> 0,
                           milestones |-> milestones,
                           token |-> token,
                           status |-> "Active"]
            IN IF ~CanTransfer(st.balances, token, depositor, validated.total)
               THEN Aborted("TransferPanic",
                            [st EXCEPT !.persistent[storage_key] = Some(escrow)])
               ELSE Ok([st EXCEPT
                          !.persistent[storage_key] = Some(escrow),
                          !.balances = Transfer(st.balances, token, depositor,
                                                Holding, validated.total)], Unit)

\* validates the milestones before the parties and the escrow_id
create_escrow_validates_first(st, escrow_id, depositor, recipient, milestones, token, auth) ==
    LET storage_key == get_storage_key(escrow_id)
        validated == validate_milestones(milestones)
    IN IF depositor \notin auth THEN AuthPanic
       ELSE IF validated.res # "Ok" THEN validated
       ELSE IF depositor = recipient THEN Err("SelfDealing")
       ELSE IF has(st.persistent, storage_key) THEN Err("EscrowAlreadyExists")
       ELSE LET total_amount == validated.total
                initialized_milestones ==
                    [i \in 1..Len(milestones) |->
                        [milestones[i] EXCEPT !.status = "Pending"]]
                escrow == [depositor |-> depositor,
                           recipient |-> recipient,
                           total_amount |-> total_amount,
                           total_released |-> 0,
                           milestones |-> initialized_milestones,
                           token |-> token,
                           status |-> "Active"]
            IN IF ~CanTransfer(st.balances, token, depositor, total_amount)
               THEN Aborted("TransferPanic",
                            [st EXCEPT !.persistent[storage_key] = Some(escrow)])
               ELSE Ok([st EXCEPT
                          !.persistent[storage_key] = Some(escrow),
                          !.balances = Transfer(st.balances, token, depositor,
                                                Holding, total_amount)], Unit)

create_escrow(st, escrow_id, depositor, recipient, milestones, token, auth) ==
    LET storage_key == get_storage_key(escrow_id)
        validated == validate_milestones(milestones)
    IN IF depositor \notin auth THEN AuthPanic
       ELSE IF depositor = recipient THEN Err("SelfDealing")
       ELSE IF has(st.persistent, storage_key) THEN Err("EscrowAlreadyExists")
       ELSE IF validated.res # "Ok" THEN validated
       ELSE LET total_amount == validated.total
                initialized_milestones ==
                    [i \in 1..Len(milestones) |->
                        [milestones[i] EXCEPT !.status = "Pending"]]
                escrow == [depositor |-> depositor,
                           recipient |-> recipient,
                           total_amount |-> total_amount,
                           total_released |-> 0,
                           milestones |-> initialized_milestones,
                           token |-> token,
                           status |-> "Active"]
            IN IF ~CanTransfer(st.balances, token, depositor, total_amount)
               THEN Aborted("TransferPanic",
                            [st EXCEPT !.persistent[storage_key] = Some(escrow)])
               ELSE Ok([st EXCEPT
                          !.persistent[storage_key] = Some(escrow),
                          !.balances = Transfer(st.balances, token, depositor,
                                                Holding, total_amount)], Unit)

get_escrow(st, escrow_id) ==
    LET storage_key == get_storage_key(escrow_id)
    IN IF ~st.persistent[storage_key].some THEN Err("EscrowNotFound")
       ELSE Ok(st, st.persistent[storage_key].val)

\* reports every stored escrow as Active
get_state_always_active(st, escrow_id) ==
    LET escrow == get_escrow(st, escrow_id)
    IN IF escrow.res # "Ok" THEN escrow
       ELSE Ok(st, "Active")

get_state(st, escrow_id) ==
    LET escrow == get_escrow(st, escrow_id)
    IN IF escrow.res # "Ok" THEN escrow
       ELSE Ok(st, escrow.val.status)

\* tests the index before the status of the escrow
release_milestone_index_first(st, escrow_id, milestone_index, token_address, auth) ==
    LET storage_key == get_storage_key(escrow_id)
    IN IF ~st.persistent[storage_key].some THEN Err("EscrowNotFound")
       ELSE LET escrow == st.persistent[storage_key].val
            IN IF escrow.depositor \notin auth THEN AuthPanic
               ELSE IF milestone_index >= Len(escrow.milestones) THEN Err("MilestoneNotFound")
               ELSE IF escrow.status # "Active" THEN Err("EscrowNotActive")
               ELSE LET milestone == escrow.milestones[milestone_index + 1]
                        config == get_config(st)
                    IN IF is_released(milestone) THEN Err("MilestoneAlreadyReleased")
                       ELSE IF config.res # "Ok" THEN config
                       ELSE LET treasury == config.val[1]
                                fee_bps == config.val[2]
                                calc == calculate_fee(milestone.amount, fee_bps)
                            IN IF calc.res # "Ok" THEN calc
                               ELSE LET fee == calc.fee
                                        payout == checked_sub(milestone.amount, fee)
                                    IN IF ~payout.some THEN Err("InvalidMilestoneAmount")
                                       ELSE IF ~CanTransfer(st.balances, token_address, Holding, payout.val)
                                            THEN TransferPanic
                                       ELSE LET paid == Transfer(st.balances, token_address, Holding,
                                                                 escrow.recipient, payout.val)
                                                updated == mark_released(escrow, milestone_index)
                                                fee_coll == [topic |-> "fee_coll", escrow_id |-> escrow_id,
                                                             milestone_index |-> milestone_index,
                                                             data |-> <<fee, treasury>>]
                                                released == [topic |-> "released", escrow_id |-> escrow_id,
                                                             milestone_index |-> milestone_index,
                                                             data |-> <<payout.val, escrow.recipient>>]
                                            IN IF fee_due(fee) /\ ~CanTransfer(paid, token_address, Holding, fee)
                                               THEN Aborted("TransferPanic", [st EXCEPT !.balances = paid])
                                               ELSE IF ~updated.some
                                               THEN Aborted("InvalidMilestoneAmount", [st EXCEPT
                                                    !.balances = IF fee_due(fee)
                                                                 THEN Transfer(paid, token_address, Holding,
                                                                               treasury, fee)
                                                                 ELSE paid,
                                                    !.events = IF fee_due(fee)
                                                               THEN Append(@, fee_coll) ELSE @])
                                               ELSE Ok([st EXCEPT
                                                    !.balances = IF fee_due(fee)
                                                                 THEN Transfer(paid, token_address, Holding,
                                                                               treasury, fee)
                                                                 ELSE paid,
                                                    !.events = IF fee_due(fee)
                                                               THEN Append(Append(@, fee_coll), released)
                                                               ELSE Append(@, released),
                                                    !.persistent[storage_key] = updated], Unit)

\* transfers in the token stored with the escrow
release_milestone_stored_token(st, escrow_id, milestone_index, token_address, auth) ==
    LET storage_key == get_storage_key(escrow_id)
    IN IF ~st.persistent[storage_key].some THEN Err("EscrowNotFound")
       ELSE LET escrow == st.persistent[storage_key].val
            IN IF escrow.depositor \notin auth THEN AuthPanic
               ELSE IF escrow.status # "Active" THEN Err("EscrowNotActive")
               ELSE IF milestone_index >= Len(escrow.milestones) THEN Err("MilestoneNotFound")
               ELSE LET milestone == escrow.milestones[milestone_index + 1]
                        config == get_config(st)
                    IN IF is_released(milestone) THEN Err("MilestoneAlreadyReleased")
                       ELSE IF config.res # "Ok" THEN config
                       ELSE LET treasury == config.val[1]
                                fee_bps == config.val[2]
                                calc == calculate_fee(milestone.amount, fee_bps)
                            IN IF calc.res # "Ok" THEN calc
                               ELSE LET fee == calc.fee
                                        payout == checked_sub(milestone.amount, fee)
                                    IN IF ~payout.some THEN Err("InvalidMilestoneAmount")
                                       ELSE IF ~CanTransfer(st.balances, escrow.token, Holding, payout.val)
                                            THEN TransferPanic
                                       ELSE LET paid == Transfer(st.balances, escrow.token, Holding,
                                                                 escrow.recipient, payout.val)
                                                updated == mark_released(escrow, milestone_index)
                                                fee_coll == [topic |-> "fee_coll", escrow_id |-> escrow_id,
                                                             milestone_index |-> milestone_index,
                                                             data |-> <<fee, treasury>>]
                                                released == [topic |-> "released", escrow_id |-> escrow_id,
                                                             milestone_index |-> milestone_index,
                                                             data |-> <<payout.val, escrow.recipient>>]
                                            IN IF fee_due(fee) /\ ~CanTransfer(paid, escrow.token, Holding, fee)
                                               THEN Aborted("TransferPanic", [st EXCEPT !.balances = paid])
                                               ELSE IF ~updated.some
                                               THEN Aborted("InvalidMilestoneAmount", [st EXCEPT
                                                    !.balances = IF fee_due(fee)
                                                                 THEN Transfer(paid, escrow.token, Holding,
                                                                               treasury, fee)
                                                                 ELSE paid,
                                                    !.events = IF fee_due(fee)
                                                               THEN Append(@, fee_coll) ELSE @])
                                               ELSE Ok([st EXCEPT
                                                    !.balances = IF fee_due(fee)
                                                                 THEN Transfer(paid, escrow.token, Holding,
                                                                               treasury, fee)
                                                                 ELSE paid,
                                                    !.events = IF fee_due(fee)
                                                               THEN Append(Append(@, fee_coll), released)
                                                               ELSE Append(@, released),
                                                    !.persistent[storage_key] = updated], Unit)

release_milestone(st, escrow_id, milestone_index, token_address, auth) ==
    LET storage_key == get_storage_key(escrow_id)
    IN IF ~st.persistent[storage_key].some THEN Err("EscrowNotFound")
       ELSE LET escrow == st.persistent[storage_key].val
            IN IF escrow.depositor \notin auth THEN AuthPanic
               ELSE IF escrow.status # "Active" THEN Err("EscrowNotActive")
               ELSE IF milestone_index >= Len(escrow.milestones) THEN Err("MilestoneNotFound")
               ELSE LET milestone == escrow.milestones[milestone_index + 1]
                        config == get_config(st)
                    IN IF is_released(milestone) THEN Err("MilestoneAlreadyReleased")
                       ELSE IF config.res # "Ok" THEN config
                       ELSE LET treasury == config.val[1]
                                fee_bps == config.val[2]
                                calc == calculate_fee(milestone.amount, fee_bps)
                            IN IF calc.res # "Ok" THEN calc
                               ELSE LET fee == calc.fee
                                        payout == checked_sub(milestone.amount, fee)
                                    IN IF ~payout.some THEN Err("InvalidMilestoneAmount")
                                       ELSE IF ~CanTransfer(st.balances, token_address, Holding, payout.val)
                                            THEN TransferPanic
                                       ELSE LET paid == Transfer(st.balances, token_address, Holding,
                                                                 escrow.recipient, payout.val)
                                                updated == mark_released(escrow, milestone_index)
                                                fee_coll == [topic |-> "fee_coll", escrow_id |-> escrow_id,
                                                             milestone_index |-> milestone_index,
                                                             data |-> <<fee, treasury>>]
                                                released == [topic |-> "released", escrow_id |-> escrow_id,
                                                             milestone_index |-> milestone_index,
                                                             data |-> <<payout.val, escrow.recipient>>]
                                            IN IF fee_due(fee) /\ ~CanTransfer(paid, token_address, Holding, fee)
                                               THEN Aborted("TransferPanic", [st EXCEPT !.balances = paid])
                                               ELSE IF ~updated.some
                                               THEN Aborted("InvalidMilestoneAmount", [st EXCEPT
                                                    !.balances = IF fee_due(fee)
                                                                 THEN Transfer(paid, token_address, Holding,
                                                                               treasury, fee)
                                                                 ELSE paid,
                                                    !.events = IF fee_due(fee)
                                                               THEN Append(@, fee_coll) ELSE @])
                                               ELSE Ok([st EXCEPT
                                                    !.balances = IF fee_due(fee)
                                                                 THEN Transfer(paid, token_address, Holding,
                                                                               treasury, fee)
                                                                 ELSE paid,
                                                    !.events = IF fee_due(fee)
                                                               THEN Append(Append(@, fee_coll), released)
                                                               ELSE Append(@, released),
                                                    !.persistent[storage_key] = updated], Unit)

\* pays through the fee-charging path
confirm_delivery_with_fee(st, escrow_id, milestone_index, buyer, auth) ==
    LET storage_key == get_storage_key(escrow_id)
    IN IF ~st.persistent[storage_key].some THEN Err("EscrowNotFound")
       ELSE LET escrow == st.persistent[storage_key].val
            IN IF buyer \notin auth THEN AuthPanic
               ELSE IF escrow.depositor # buyer THEN Err("UnauthorizedAccess")
               ELSE release_milestone(st, escrow_id, milestone_index, escrow.token, auth)

\* tests the escrow and the milestone before the buyer
confirm_delivery_status_first(st, escrow_id, milestone_index, buyer, auth) ==
    LET storage_key == get_storage_key(escrow_id)
    IN IF ~st.persistent[storage_key].some THEN Err("EscrowNotFound")
       ELSE LET escrow == st.persistent[storage_key].val
            IN IF buyer \notin auth THEN AuthPanic
               ELSE IF escrow.status # "Active" THEN Err("EscrowNotActive")
               ELSE IF milestone_index >= Len(escrow.milestones) THEN Err("MilestoneNotFound")
               ELSE IF is_released(escrow.milestones[milestone_index + 1])
                    THEN Err("MilestoneAlreadyReleased")
               ELSE IF escrow.depositor # buyer THEN Err("UnauthorizedAccess")
               ELSE LET milestone == escrow.milestones[milestone_index + 1]
                        updated == mark_released(escrow, milestone_index)
                    IN IF ~updated.some THEN Err("InvalidMilestoneAmount")
                       ELSE IF ~CanTransfer(st.balances, escrow.token, Holding, milestone.amount)
                            THEN TransferPanic
                       ELSE Ok([st EXCEPT
                                !.balances = Transfer(st.balances, escrow.token, Holding,
                                                      escrow.recipient, milestone.amount),
                                !.persistent[storage_key] = updated], Unit)

confirm_delivery(st, escrow_id, milestone_index, buyer, auth) ==
    LET storage_key == get_storage_key(escrow_id)
    IN IF ~st.persistent[storage_key].some THEN Err("EscrowNotFound")
       ELSE LET escrow == st.persistent[storage_key].val
            IN IF buyer \notin auth THEN AuthPanic
               ELSE IF escrow.depositor # buyer THEN Err("UnauthorizedAccess")
               ELSE IF escrow.status # "Active" THEN Err("EscrowNotActive")
               ELSE IF milestone_index >= Len(escrow.milestones) THEN Err("MilestoneNotFound")
               ELSE LET milestone == escrow.milestones[milestone_index + 1]
                        updated == mark_released(escrow, milestone_index)
                    IN IF is_released(milestone) THEN Err("MilestoneAlreadyReleased")
                       ELSE IF ~updated.some THEN Err("InvalidMilestoneAmount")
                       ELSE IF ~CanTransfer(st.balances, escrow.token, Holding, milestone.amount)
                            THEN TransferPanic
                       ELSE Ok([st EXCEPT
                                !.balances = Transfer(st.balances, escrow.token, Holding,
                                                      escrow.recipient, milestone.amount),
                                !.persistent[storage_key] = updated], Unit)

\* cancels whatever has been released
cancel_escrow_unchecked(st, escrow_id, auth) ==
    LET storage_key == get_storage_key(escrow_id)
    IN IF ~st.persistent[storage_key].some THEN Err("EscrowNotFound")
       ELSE LET escrow == st.persistent[storage_key].val
            IN IF escrow.depositor \notin auth THEN AuthPanic
               ELSE Ok([st EXCEPT !.persistent[storage_key] =
                            Some([escrow EXCEPT !.status = "Cancelled"])], Unit)

cancel_escrow(st, escrow_id, auth) ==
    LET storage_key == get_storage_key(escrow_id)
    IN IF ~st.persistent[storage_key].some THEN Err("EscrowNotFound")
       ELSE LET escrow == st.persistent[storage_key].val
            IN IF escrow.depositor \notin auth THEN AuthPanic
               ELSE IF escrow.total_released > 0 THEN Err("MilestoneAlreadyReleased")
               ELSE Ok([st EXCEPT !.persistent[storage_key] =
                            Some([escrow EXCEPT !.status = "Cancelled"])], Unit)

\* asks for no proof
complete_escrow_no_auth(st, escrow_id, auth) ==
    LET storage_key == get_storage_key(escrow_id)
    IN IF ~st.persistent[storage_key].some THEN Err("EscrowNotFound")
       ELSE LET escrow == st.persistent[storage_key].val
            IN IF ~verify_all_released(escrow.milestones) THEN Err("EscrowNotActive")
               ELSE Ok([st EXCEPT !.persistent[storage_key] =
                            Some([escrow EXCEPT !.status = "Completed"])], Unit)

complete_escrow(st, escrow_id, auth) ==
    LET storage_key == get_storage_key(escrow_id)
    IN IF ~st.persistent[storage_key].some THEN Err("EscrowNotFound")
       ELSE LET escrow == st.persistent[storage_key].val
            IN IF escrow.depositor \notin auth THEN AuthPanic
               ELSE IF ~verify_all_released(escrow.milestones) THEN Err("EscrowNotActive")
               ELSE Ok([st EXCEPT !.persistent[storage_key] =
                            Some([escrow EXCEPT !.status = "Completed"])], Unit)

(***************************************************************************)
(* The state machine.                                                      *)
(***************************************************************************)
State == [instance |-> instance, persistent |-> persistent,
          balances |-> balances, events |-> events]

Idle == [op |-> "none", res |-> "none"]

\* a host that keeps the writes made before a failure
Commit_without_rollback(op, out) ==
    /\ result = Idle
    /\ result' = [op |-> op, res |-> out.res]
    /\ IF "st" \in DOMAIN out
       THEN /\ instance' = out.st.instance
            /\ persistent' = out.st.persistent
            /\ balances' = out.st.balances
            /\ events' = out.st.events
       ELSE UNCHANGED <<instance, persistent, balances, events>>

\* The host commits the writes of an invocation that returned Ok and rolls
\* back those of one that returned Err or panicked.
Commit(op, out) ==
    /\ result = Idle
    /\ result' = [op |-> op, res |-> out.res]
    /\ IF out.res = "Ok"
       THEN /\ instance' = out.st.instance
            /\ persistent' = out.st.persistent
            /\ balances' = out.st.balances
            /\ events' = out.st.events
       ELSE UNCHANGED <<instance, persistent, balances, events>>

\* floor(amount * fee_bps / 10000), the fee the tests expect of a release
ExpectedFee(amount, fee_bps) == (amount * fee_bps) \div BPS_DENOMINATOR

\* the client has read the outcome and the events of its invocation
Acknowledge ==
    /\ result # Idle
    /\ result' = Idle
    /\ events' = << >>
    /\ UNCHANGED <<instance, persistent, balances, sums>>

Init ==
    /\ instance = [treasury |-> None, fee_bps |-> None]
    /\ persistent = [id \in EscrowIds |-> None]
    /\ balances = [t \in Tokens |-> [a \in Accounts |->
                      IF a \in Depositors THEN Minted[t] ELSE 0]]
    /\ events = << >>
    /\ result = Idle
    /\ sums = [fees |-> [t \in Tokens |-> [u \in Users |-> 0]],
               payouts |-> [t \in Tokens |-> [u \in Users |-> 0]]]

Initialize(treasury, fee_bps, auth) ==
    /\ Commit("initialize", initialize(State, treasury, fee_bps, auth))
    /\ UNCHANGED sums

UpdateFee(new_fee_bps, auth) ==
    /\ Commit("update_fee", update_fee(State, new_fee_bps, auth))
    /\ UNCHANGED sums

GetConfig ==
    /\ Commit("get_config", get_config(State))
    /\ UNCHANGED sums

CreateEscrow(escrow_id, depositor, recipient, milestones, token, auth) ==
    /\ Commit("create_escrow",
              create_escrow(State, escrow_id, depositor, recipient, milestones, token, auth))
    /\ UNCHANGED sums

GetEscrow(escrow_id) ==
    /\ Commit("get_escrow", get_escrow(State, escrow_id))
    /\ UNCHANGED sums

GetState(escrow_id) ==
    /\ Commit("get_state", get_state(State, escrow_id))
    /\ UNCHANGED sums

ReleaseMilestone(escrow_id, milestone_index, token_address, auth) ==
    /\ Commit("release_milestone",
              release_milestone(State, escrow_id, milestone_index, token_address, auth))
    /\ UNCHANGED sums

\* release_milestone called by a client that adds, after each successful
\* release, the fee at the rate then stored and the payout to its sums
ReleaseMilestoneSummed(escrow_id, milestone_index, token_address, auth) ==
    LET out == release_milestone(State, escrow_id, milestone_index, token_address, auth)
        escrow == persistent[escrow_id].val
        amount == escrow.milestones[milestone_index + 1].amount
        fee == ExpectedFee(amount, instance.fee_bps.val)
    IN /\ Commit("release_milestone", out)
       /\ sums' = IF out.res = "Ok"
                  THEN [fees |-> [sums.fees EXCEPT
                                    ![token_address][instance.treasury.val] = @ + fee],
                        payouts |-> [sums.payouts EXCEPT
                                    ![token_address][escrow.recipient] = @ + (amount - fee)]]
                  ELSE sums

ConfirmDelivery(escrow_id, milestone_index, buyer, auth) ==
    /\ Commit("confirm_delivery",
              confirm_delivery(State, escrow_id, milestone_index, buyer, auth))
    /\ UNCHANGED sums

CancelEscrow(escrow_id, auth) ==
    /\ Commit("cancel_escrow", cancel_escrow(State, escrow_id, auth))
    /\ UNCHANGED sums

CompleteEscrow(escrow_id, auth) ==
    /\ Commit("complete_escrow", complete_escrow(State, escrow_id, auth))
    /\ UNCHANGED sums

IndexInputs == 0..MaxLen
OptFeeInputs == {None} \cup {Some(f) : f \in FeeInputs}

Next ==
    \/ \E t \in Treasuries, f \in OptFeeInputs, auth \in AuthSets : Initialize(t, f, auth)
    \/ \E f \in FeeInputs, auth \in AuthSets : UpdateFee(f, auth)
    \/ GetConfig
    \/ \E id \in EscrowIds, d \in Depositors, r \in Recipients, ms \in MilestoneVecs,
          t \in Tokens, auth \in AuthSets : CreateEscrow(id, d, r, ms, t, auth)
    \/ \E id \in EscrowIds : GetEscrow(id)
    \/ \E id \in EscrowIds : GetState(id)
    \/ \E id \in EscrowIds, i \in IndexInputs, t \in Tokens, auth \in AuthSets :
          ReleaseMilestone(id, i, t, auth)
    \/ \E id \in EscrowIds, i \in IndexInputs, b \in Users, auth \in AuthSets :
          ConfirmDelivery(id, i, b, auth)
    \/ \E id \in EscrowIds, auth \in AuthSets : CancelEscrow(id, auth)
    \/ \E id \in EscrowIds, auth \in AuthSets : CompleteEscrow(id, auth)
    \/ Acknowledge

Spec == Init /\ [][Next]_vars

\* The contract driven through release_milestone alone: every operation but
\* confirm_delivery.
NextRelease ==
    \/ \E t \in Treasuries, f \in OptFeeInputs, auth \in AuthSets : Initialize(t, f, auth)
    \/ \E f \in FeeInputs, auth \in AuthSets : UpdateFee(f, auth)
    \/ \E id \in EscrowIds, d \in Depositors, r \in Recipients, ms \in MilestoneVecs,
          t \in Tokens, auth \in AuthSets : CreateEscrow(id, d, r, ms, t, auth)
    \/ \E id \in EscrowIds, i \in IndexInputs, t \in Tokens, auth \in AuthSets :
          ReleaseMilestoneSummed(id, i, t, auth)
    \/ \E id \in EscrowIds, auth \in AuthSets : CancelEscrow(id, auth)
    \/ \E id \in EscrowIds, auth \in AuthSets : CompleteEscrow(id, auth)
    \/ Acknowledge

ReleaseSpec == Init /\ [][NextRelease]_vars

\* create_escrow alone, on vectors up to and beyond the length limit and
\* amounts up to the largest
NextValidate ==
    \/ \E id \in EscrowIds, d \in Depositors, r \in Recipients, ms \in LongVecs,
          t \in Tokens, auth \in AuthSets : CreateEscrow(id, d, r, ms, t, auth)
    \/ Acknowledge

ValidateSpec == Init /\ [][NextValidate]_vars

\* Every operation, with fee rates at which the holding identity can pay a
\* payout and then lack the fee.
NextAbort ==
    \/ \E t \in Treasuries, f \in AbortFeeInputs, auth \in AuthSets :
          Initialize(t, Some(f), auth)
    \/ \E f \in AbortFeeInputs, auth \in AuthSets : UpdateFee(f, auth)
    \/ GetConfig
    \/ \E id \in EscrowIds, d \in Depositors, r \in Recipients, ms \in MilestoneVecs,
          t \in Tokens, auth \in AuthSets : CreateEscrow(id, d, r, ms, t, auth)
    \/ \E id \in EscrowIds : GetEscrow(id)
    \/ \E id \in EscrowIds : GetState(id)
    \/ \E id \in EscrowIds, i \in IndexInputs, t \in Tokens, auth \in AuthSets :
          ReleaseMilestone(id, i, t, auth)
    \/ \E id \in EscrowIds, i \in IndexInputs, b \in Users, auth \in AuthSets :
          ConfirmDelivery(id, i, b, auth)
    \/ \E id \in EscrowIds, auth \in AuthSets : CancelEscrow(id, auth)
    \/ \E id \in EscrowIds, auth \in AuthSets : CompleteEscrow(id, auth)
    \/ Acknowledge

AbortSpec == Init /\ [][NextAbort]_vars

(***************************************************************************)
(* Properties.                                                             *)
(***************************************************************************)
Exists(id) == persistent[id].some
EscrowOf(id) == persistent[id].val
Indices(escrow) == 0..(Len(escrow.milestones) - 1)
StatusOf(escrow, i) == escrow.milestones[i + 1].status
AmountOf(escrow, i) == escrow.milestones[i + 1].amount
PayoutOps == {"release_milestone", "confirm_delivery"}

RECURSIVE ReleasedSumFrom(_, _)
\* the sum of the amounts of the Released milestones at positions i..Len
ReleasedSumFrom(milestones, i) ==
    IF i > Len(milestones) THEN 0
    ELSE (IF milestones[i].status = "Released" THEN milestones[i].amount ELSE 0)
         + ReleasedSumFrom(milestones, i + 1)

ReleasedSum(escrow) == ReleasedSumFrom(escrow.milestones, 1)

RECURSIVE SumOver(_, _)
\* the sum of f over the finite set S
SumOver(f, S) ==
    IF S = {} THEN 0
    ELSE LET x == CHOOSE y \in S : TRUE
         IN f[x] + SumOver(f, S \ {x})

\* what the holding identity still owes, over all stored escrows
Outstanding ==
    SumOver([id \in EscrowIds |->
                IF Exists(id) THEN EscrowOf(id).total_amount - ReleasedSum(EscrowOf(id))
                ELSE 0], EscrowIds)

HeldTotal == SumOver([t \in Tokens |-> balances[t][Holding]], Tokens)

\* milestone i of escrow id is Released and the escrow is Active
ReleasedInActive(id, i) ==
    /\ Exists(id)
    /\ EscrowOf(id).status = "Active"
    /\ i \in Indices(EscrowOf(id))
    /\ StatusOf(EscrowOf(id), i) = "Released"

\* C1 as stated: every payout call (either entry point) that carries the
\* authorization proof the entry point asks for, on a milestone already
\* Released in an Active escrow, fails with MilestoneAlreadyReleased.
C1_AnyPayoutCallAlreadyReleased ==
    \A id \in EscrowIds, i \in IndexInputs :
        ReleasedInActive(id, i) =>
            /\ \A t \in Tokens, auth \in AuthSets :
                  EscrowOf(id).depositor \in auth =>
                      release_milestone(State, id, i, t, auth).res
                          = "MilestoneAlreadyReleased"
            /\ \A b \in Users, auth \in AuthSets :
                  b \in auth =>
                      confirm_delivery(State, id, i, b, auth).res
                          = "MilestoneAlreadyReleased"

\* C1 (amended): each (escrow_id, milestone_index) is paid out at most once.
\* No payout call on a milestone already Released in an Active escrow
\* succeeds, so none transfers anything: with the stored depositor's proof
\* (confirm_delivery: with buyer = the stored depositor) it fails with
\* MilestoneAlreadyReleased, confirm_delivery by another buyer fails with
\* UnauthorizedAccess, and a call without the proof aborts.  The amounts
\* the holding identity holds are exactly the amounts of the milestones not
\* yet Released: each Released amount has left it once.
C1_PaidAtMostOnce ==
    /\ \A id \in EscrowIds, i \in IndexInputs :
          ReleasedInActive(id, i) =>
              /\ \A t \in Tokens, auth \in AuthSets :
                    release_milestone(State, id, i, t, auth).res
                        = IF EscrowOf(id).depositor \in auth
                          THEN "MilestoneAlreadyReleased" ELSE "AuthPanic"
              /\ \A b \in Users, auth \in AuthSets :
                    confirm_delivery(State, id, i, b, auth).res
                        = IF b \notin auth THEN "AuthPanic"
                          ELSE IF b # EscrowOf(id).depositor THEN "UnauthorizedAccess"
                          ELSE "MilestoneAlreadyReleased"
    /\ HeldTotal = Outstanding
    /\ result.res = "MilestoneAlreadyReleased" => events = << >>

\* a second payout call has just failed with MilestoneAlreadyReleased on an
\* escrow that is still Active
C1_Witness ==
    /\ result.op \in PayoutOps
    /\ result.res = "MilestoneAlreadyReleased"
    /\ \E id \in EscrowIds, i \in IndexInputs : ReleasedInActive(id, i)

\* C2: every stored escrow satisfies 0 <= total_released <= total_amount.
C2_ReleasedWithinTotal ==
    \A id \in EscrowIds :
        Exists(id) =>
            /\ 0 <= EscrowOf(id).total_released
            /\ EscrowOf(id).total_released <= EscrowOf(id).total_amount

\* a payout has just brought total_released of a funded escrow up to its
\* total_amount, while another escrow is only partly released
C2_Witness ==
    /\ result.op \in PayoutOps
    /\ result.res = "Ok"
    /\ \E id \in EscrowIds :
          /\ Exists(id)
          /\ EscrowOf(id).total_amount > 0
          /\ EscrowOf(id).total_released = EscrowOf(id).total_amount
    /\ \E id \in EscrowIds :
          /\ Exists(id)
          /\ 0 < EscrowOf(id).total_released
          /\ EscrowOf(id).total_released < EscrowOf(id).total_amount

\* C3: every stored escrow's total_released is the sum of the full amounts
\* of its Released milestones (release_milestone adds the amount, not the
\* payout net of fee, exactly as confirm_delivery does).
C3_ReleasedIsSumOfReleased ==
    \A id \in EscrowIds :
        Exists(id) => EscrowOf(id).total_released = ReleasedSum(EscrowOf(id))

\* release_milestone has just charged a fee on one of two milestones
C3_Witness ==
    /\ result = [op |-> "release_milestone", res |-> "Ok"]
    /\ Len(events) = 2
    /\ events[1].data[1] > 0
    /\ \E id \in EscrowIds :
          /\ Exists(id)
          /\ Len(EscrowOf(id).milestones) = 2
          /\ EscrowOf(id).total_released = events[1].data[1] + events[2].data[1]
          /\ EscrowOf(id).total_released < EscrowOf(id).total_amount

\* C4 as stated: the only status changes of a stored escrow are
\* Active -> Completed and Active -> Cancelled; Completed and Cancelled are
\* terminal.
C4_StatusTerminal ==
    [][\A id \in EscrowIds :
          Exists(id) =>
              /\ persistent'[id].some
              /\ persistent'[id].val.status # EscrowOf(id).status =>
                    /\ EscrowOf(id).status = "Active"
                    /\ persistent'[id].val.status \in {"Completed", "Cancelled"}]_vars

\* C5 as stated: create_escrow (by an authorized depositor) on an escrow_id
\* that already has a record fails with EscrowAlreadyExists.
C5_CreateOnUsedIdAlreadyExists ==
    \A id \in EscrowIds :
        Exists(id) =>
            \A d \in Depositors, r \in Recipients, ms \in MilestoneVecs,
               t \in Tokens, auth \in AuthSets :
                d \in auth =>
                    create_escrow(State, id, d, r, ms, t, auth).res = "EscrowAlreadyExists"

\* the fields of a record that creation fixes
Fixed(escrow) ==
    [depositor |-> escrow.depositor, recipient |-> escrow.recipient,
     token |-> escrow.token, total_amount |-> escrow.total_amount,
     amounts |-> [i \in 1..Len(escrow.milestones) |-> escrow.milestones[i].amount]]

\* C5 (amended): escrow identifiers are write-once.  No create_escrow on an
\* escrow_id that has a record succeeds: by an authorized depositor that is
\* not the recipient it fails with EscrowAlreadyExists (with depositor =
\* recipient it fails with SelfDealing first).  At every step a record stays
\* stored and keeps its depositor, recipient, token, total_amount, milestone
\* count and milestone amounts, and a successful create_escrow stores a
\* record under an escrow_id that had none.
C5_WriteOnce ==
    [][/\ \A id \in EscrowIds :
             Exists(id) =>
                 /\ persistent'[id].some
                 /\ Fixed(persistent'[id].val) = Fixed(EscrowOf(id))
                 /\ result # Idle =>
                       \A d \in Depositors, r \in Recipients, ms \in MilestoneVecs,
                          t \in Tokens, auth \in AuthSets :
                           create_escrow(State, id, d, r, ms, t, auth).res
                               = IF d \notin auth THEN "AuthPanic"
                                 ELSE IF d = r THEN "SelfDealing"
                                 ELSE "EscrowAlreadyExists"
       /\ (result'.op = "create_escrow" /\ result'.res = "Ok") =>
             \E id \in EscrowIds : ~Exists(id) /\ persistent'[id].some
       /\ result'.res = "EscrowAlreadyExists" =>
             /\ UNCHANGED <<instance, persistent, balances>>
             /\ \E id \in EscrowIds : Exists(id)]_vars

\* create_escrow has just failed with EscrowAlreadyExists on the escrow_id of
\* a record that is no longer Active
C5_Witness ==
    /\ result = [op |-> "create_escrow", res |-> "EscrowAlreadyExists"]
    /\ \A id \in EscrowIds : Exists(id) => EscrowOf(id).status # "Active"

\* the change of identity u's balance of token t that outcome out makes
Delta(out, t, u) == out.st.balances[t][u] - balances[t][u]

\* C6 as stated: a successful release_milestone of amount a under rate b
\* has fee = floor(a*b/10000), payout = a - fee, 0 <= fee <= a, and raises
\* the recipient's balance by exactly payout and the treasury's by exactly
\* fee.
C6_RecipientGetsPayoutTreasuryGetsFee ==
    \A id \in EscrowIds, i \in IndexInputs, t \in Tokens, auth \in AuthSets :
        LET out == release_milestone(State, id, i, t, auth)
            a == AmountOf(EscrowOf(id), i)
            fee == (a * instance.fee_bps.val) \div 10000
        IN out.res = "Ok" =>
              /\ 0 <= fee /\ fee <= a
              /\ Delta(out, t, EscrowOf(id).recipient) = a - fee
              /\ Delta(out, t, instance.treasury.val) = fee

\* C6 (amended): a successful release_milestone of amount a under stored
\* rate b (0 <= b <= 10000) has fee = floor(a*b/10000), payout = a - fee and
\* 0 <= fee <= a; in the token it is called with, the holding balance falls
\* by a, and when recipient and treasury are different identities the
\* recipient's balance rises by exactly payout and the treasury's by exactly
\* fee, while an identity that is both receives payout + fee = a; no other
\* balance changes.  (a=10000,b=50: 50/9950; a=100,b=50: 0/100;
\* a=200,b=50: 1/199; a=1000000,b=100: 10000/990000.)
C6_FeeAndPayout ==
    /\ \A id \in EscrowIds, i \in IndexInputs, t \in Tokens, auth \in AuthSets :
          LET out == release_milestone(State, id, i, t, auth)
              a == AmountOf(EscrowOf(id), i)
              b == instance.fee_bps.val
              fee == (a * b) \div 10000
              payout == a - fee
              r == EscrowOf(id).recipient
              tr == instance.treasury.val
          IN out.res = "Ok" =>
                /\ 0 <= b /\ b <= 10000
                /\ 0 <= fee /\ fee <= a
                /\ Delta(out, t, Holding) = -a
                /\ r # tr => Delta(out, t, r) = payout /\ Delta(out, t, tr) = fee
                /\ r = tr => Delta(out, t, r) = a
                /\ \A u \in Users \ {r, tr} : Delta(out, t, u) = 0
                /\ \A t2 \in Tokens \ {t} : out.st.balances[t2] = balances[t2]
    /\ calculate_fee(10000, 50) = [res |-> "Ok", fee |-> 50]
    /\ calculate_fee(100, 50) = [res |-> "Ok", fee |-> 0]
    /\ calculate_fee(200, 50) = [res |-> "Ok", fee |-> 1]
    /\ calculate_fee(1000000, 100) = [res |-> "Ok", fee |-> 10000]

\* release_milestone has just paid 299 to the recipient and the truncated
\* fee 1 (of 300 at 50 bps) to a treasury that is another identity
C6_Witness ==
    /\ result = [op |-> "release_milestone", res |-> "Ok"]
    /\ Len(events) = 2
    /\ events[1].topic = "fee_coll" /\ events[1].data[1] = 1
    /\ events[2].topic = "released" /\ events[2].data[1] = 299
    /\ events[1].data[2] # events[2].data[2]
    /\ balances["tokA"][events[1].data[2]] = 1
    /\ balances["tokA"][events[2].data[2]] = 299

\* the contents instance storage can have
ConfigValues ==
    {[treasury |-> None, fee_bps |-> None]}
    \cup {[treasury |-> Some(t), fee_bps |-> Some(f)] :
             t \in Treasuries, f \in {f \in FeeInputs \cup {DEFAULT_FEE_BPS} :
                                         0 <= f /\ f <= BPS_DENOMINATOR}}

\* C7 as stated: a successful confirm_delivery leaves the treasury's
\* balance unchanged.
C7_TreasuryBalanceUnchanged ==
    \A id \in EscrowIds, i \in IndexInputs, b \in Users, auth \in AuthSets :
        LET out == confirm_delivery(State, id, i, b, auth)
        IN (out.res = "Ok" /\ instance.treasury.some) =>
              \A t \in Tokens : Delta(out, t, instance.treasury.val) = 0

\* C7 (amended): a successful confirm_delivery charges no fee: in the
\* escrow's own stored token the holding balance falls by the milestone's
\* full amount and the recipient's rises by it, no other balance of any
\* token changes (so the treasury's balance is unchanged unless the treasury
\* is the recipient itself), no event is published and the config is not
\* touched; and the call succeeds whatever instance storage holds: no
\* config, or any treasury and fee_bps.
C7_ConfirmChargesNoFee ==
    \A id \in EscrowIds, i \in IndexInputs, b \in Users, auth \in AuthSets :
        LET out == confirm_delivery(State, id, i, b, auth)
            e == EscrowOf(id)
            a == AmountOf(e, i)
        IN out.res = "Ok" =>
              /\ Delta(out, e.token, Holding) = -a
              /\ Delta(out, e.token, e.recipient) = a
              /\ \A u \in Users \ {e.recipient} : Delta(out, e.token, u) = 0
              /\ \A t2 \in Tokens \ {e.token} : out.st.balances[t2] = balances[t2]
              /\ out.st.instance = instance
              /\ out.st.events = events
              /\ \A c \in ConfigValues :
                    confirm_delivery([State EXCEPT !.instance = c], id, i, b, auth)
                        = [out EXCEPT !.st.instance = c]

\* confirm_delivery has just paid a full amount to the recipient although
\* initialize has never been called
C7_Witness ==
    /\ result = [op |-> "confirm_delivery", res |-> "Ok"]
    /\ ~instance.treasury.some
    /\ \E id \in EscrowIds :
          /\ Exists(id)
          /\ EscrowOf(id).total_released > 0
          /\ balances[EscrowOf(id).token][EscrowOf(id).recipient]
                = EscrowOf(id).total_released

\* C8 as stated (runs of ReleaseSpec: release_milestone is the only payout):
\* the treasury's balance is the running sum of the fees and the
\* recipient's balance the running sum of the payouts.
C8_BalancesAreSeparateSums ==
    \A t \in Tokens :
        /\ instance.treasury.some =>
              balances[t][instance.treasury.val] = sums.fees[t][instance.treasury.val]
        /\ \A id \in EscrowIds :
              Exists(id) =>
                  balances[t][EscrowOf(id).recipient]
                      = sums.payouts[t][EscrowOf(id).recipient]

\* C8 (amended): after any sequence of successful release_milestone calls
\* (fee rate possibly changed in between), every identity's balance of a
\* token is the running sum of the fees paid to it as treasury plus the
\* running sum of the payouts paid to it as recipient, each fee computed as
\* floor(amount * rate / 10000) from the rate stored at that release: the
\* treasury's balance is the sum of the fees, and the recipient's the sum of
\* the payouts, for identities that are not both.
C8_BalancesAreRunningSums ==
    \A t \in Tokens, u \in Users \ Depositors :
        /\ balances[t][u] = sums.fees[t][u] + sums.payouts[t][u]
        /\ sums.payouts[t][u] = 0 => balances[t][u] = sums.fees[t][u]
        /\ sums.fees[t][u] = 0 => balances[t][u] = sums.payouts[t][u]

\* two milestones have been released at different stored rates (300 of
\* tokA at 50 bps, 100 of tokB at 10000 bps) to a treasury that is not the
\* recipient: the treasury holds the fees 1 and 100, the recipient the
\* payouts 299 and 0
C8_Witness ==
    /\ result = [op |-> "release_milestone", res |-> "Ok"]
    /\ instance.treasury.some
    /\ LET tr == instance.treasury.val
       IN /\ sums.fees["tokA"][tr] = 1 /\ balances["tokA"][tr] = 1
          /\ sums.fees["tokB"][tr] = 100 /\ balances["tokB"][tr] = 100
          /\ \E r \in Users \ {tr} :
                /\ sums.payouts["tokA"][r] = 299 /\ balances["tokA"][r] = 299
                /\ sums.payouts["tokB"][r] = 0 /\ balances["tokB"][r] = 0

AllReleased(escrow) == \A i \in Indices(escrow) : StatusOf(escrow, i) = "Released"

\* C9: for an existing escrow and a call carrying its depositor's proof,
\* complete_escrow succeeds iff every milestone is Released, and then sets
\* the status to Completed and changes nothing else; otherwise it fails
\* with EscrowNotActive (and the host keeps the record as it was).
C9_CompleteIffAllReleased ==
    /\ \A id \in EscrowIds, auth \in AuthSets :
          (Exists(id) /\ EscrowOf(id).depositor \in auth) =>
              LET out == complete_escrow(State, id, auth)
              IN IF AllReleased(EscrowOf(id))
                 THEN /\ out.res = "Ok"
                      /\ out.st = [State EXCEPT !.persistent[id] =
                                      Some([EscrowOf(id) EXCEPT !.status = "Completed"])]
                 ELSE out = Err("EscrowNotActive")
    /\ result = [op |-> "complete_escrow", res |-> "Ok"] =>
          \E id \in EscrowIds :
              Exists(id) /\ EscrowOf(id).status = "Completed" /\ AllReleased(EscrowOf(id))
    /\ result = [op |-> "complete_escrow", res |-> "EscrowNotActive"] =>
          \E id \in EscrowIds : Exists(id) /\ ~AllReleased(EscrowOf(id))

\* complete_escrow has just completed an escrow whose two milestones are
\* Released, while the other escrow has a Pending milestone
C9_Witness ==
    /\ result = [op |-> "complete_escrow", res |-> "Ok"]
    /\ \E id \in EscrowIds :
          /\ Exists(id)
          /\ EscrowOf(id).status = "Completed"
          /\ Len(EscrowOf(id).milestones) = 2
    /\ \E id \in EscrowIds :
          /\ Exists(id)
          /\ ~AllReleased(EscrowOf(id))
          /\ complete_escrow(State, id, {EscrowOf(id).depositor}).res = "EscrowNotActive"

\* C10: for an existing escrow and a call carrying its depositor's proof,
\* cancel_escrow succeeds iff total_released = 0, otherwise it fails with
\* MilestoneAlreadyReleased; on success it sets the status to Cancelled and
\* changes nothing else: no balance moves, the deposit stays with the
\* holding identity.
C10_CancelIffNothingReleased ==
    /\ \A id \in EscrowIds, auth \in AuthSets :
          (Exists(id) /\ EscrowOf(id).depositor \in auth) =>
              LET out == cancel_escrow(State, id, auth)
              IN IF EscrowOf(id).total_released = 0
                 THEN /\ out.res = "Ok"
                      /\ out.st = [State EXCEPT !.persistent[id] =
                                      Some([EscrowOf(id) EXCEPT !.status = "Cancelled"])]
                      /\ out.st.balances = balances
                 ELSE out = Err("MilestoneAlreadyReleased")
    /\ result = [op |-> "cancel_escrow", res |-> "Ok"] =>
          \E id \in EscrowIds :
              /\ Exists(id)
              /\ EscrowOf(id).status = "Cancelled"
              /\ EscrowOf(id).total_released = 0
    /\ result = [op |-> "cancel_escrow", res |-> "MilestoneAlreadyReleased"] =>
          \E id \in EscrowIds : Exists(id) /\ EscrowOf(id).total_released > 0

\* cancel_escrow has just cancelled a funded escrow whose deposit is still
\* with the holding identity, while the other escrow, partly released,
\* cannot be cancelled
C10_Witness ==
    /\ result = [op |-> "cancel_escrow", res |-> "Ok"]
    /\ \E id \in EscrowIds :
          /\ Exists(id)
          /\ EscrowOf(id).status = "Cancelled"
          /\ EscrowOf(id).total_amount > 0
          /\ balances[EscrowOf(id).token][Holding] >= EscrowOf(id).total_amount
    /\ \E id \in EscrowIds :
          /\ Exists(id)
          /\ EscrowOf(id).total_released > 0
          /\ cancel_escrow(State, id, {EscrowOf(id).depositor}).res
                = "MilestoneAlreadyReleased"

RECURSIVE PrefixSum(_, _)
\* the sum of the amounts of the first n milestones, or I128_MAX + 1 once a
\* prefix of it exceeds I128_MAX
PrefixSum(milestones, n) ==
    IF n = 0 THEN 0
    ELSE LET p == PrefixSum(milestones, n - 1)
             a == milestones[n].amount
         IN IF p > I128_MAX \/ (a > 0 /\ p > I128_MAX - a) THEN I128_MAX + 1
            ELSE p + a

\* the record create_escrow is to store
Created(depositor, recipient, milestones, token) ==
    [depositor |-> depositor,
     recipient |-> recipient,
     total_amount |-> PrefixSum(milestones, Len(milestones)),
     total_released |-> 0,
     milestones |-> [i \in 1..Len(milestones) |->
                        Milestone(milestones[i].amount, "Pending",
                                  milestones[i].description)],
     token |-> token,
     status |-> "Active"]

\* C11 (runs of ValidateSpec): for every vector of length <= 20 with all
\* amounts > 0, a fresh escrow_id, depositor # recipient, the depositor's
\* proof, a sum within the integer range and a depositor balance covering
\* it, create_escrow succeeds, stores a record with total_amount = the sum
\* of the amounts, total_released = 0, status Active and every milestone
\* Pending whatever statuses were supplied, moves exactly total_amount from
\* the depositor to the holding identity, and changes nothing else.
C11_CreateStoresSumAndPending ==
    \A id \in EscrowIds, d \in Depositors, r \in Recipients, ms \in LongVecs,
       t \in Tokens, auth \in AuthSets :
        LET total == PrefixSum(ms, Len(ms))
            out == create_escrow(State, id, d, r, ms, t, auth)
        IN (/\ ~Exists(id) /\ d # r /\ d \in auth
            /\ Len(ms) <= 20
            /\ \A i \in 1..Len(ms) : ms[i].amount > 0
            /\ total <= I128_MAX
            /\ balances[t][d] >= total)
           => /\ out.res = "Ok"
              /\ out.st.persistent = [persistent EXCEPT ![id] = Some(Created(d, r, ms, t))]
              /\ out.st.balances[t][d] = balances[t][d] - total
              /\ out.st.balances[t][Holding] = balances[t][Holding] + total
              /\ \A a \in Accounts \ {d, Holding} : out.st.balances[t][a] = balances[t][a]
              /\ \A t2 \in Tokens \ {t} : out.st.balances[t2] = balances[t2]
              /\ out.st.instance = instance
              /\ out.st.events = events

\* create_escrow has just stored a 20-milestone escrow of total 20 beside a
\* 3-milestone escrow of total 300, every milestone Pending although all
\* were supplied as Released
C11_Witness ==
    /\ result = [op |-> "create_escrow", res |-> "Ok"]
    /\ \E id \in EscrowIds :
          /\ Exists(id)
          /\ Len(EscrowOf(id).milestones) = MAX_MILESTONES
          /\ EscrowOf(id).total_amount = 20
          /\ \A i \in Indices(EscrowOf(id)) : StatusOf(EscrowOf(id), i) = "Pending"
    /\ \E id \in EscrowIds :
          /\ Exists(id)
          /\ Len(EscrowOf(id).milestones) = 3
          /\ EscrowOf(id).total_amount = 300
          /\ EscrowOf(id).total_released = 0
          /\ EscrowOf(id).status = "Active"
          /\ \A i \in Indices(EscrowOf(id)) : StatusOf(EscrowOf(id), i) = "Pending"
          /\ balances[EscrowOf(id).token][Holding] = 300

\* an invocation has just ended without Ok
FailedCall == result = Idle /\ result' # Idle /\ result'.res # "Ok"

C13_AuthorizationCheckedFirst ==
    /\ \A t \in Treasuries, f \in OptFeeInputs : initialize(State, t, f, {}).res = "AuthPanic"
    /\ \A f \in FeeInputs : update_fee(State, f, {}).res = "AuthPanic"
    /\ \A id \in EscrowIds, d \in Depositors, r \in Recipients, ms \in MilestoneVecs,
          t \in Tokens : create_escrow(State, id, d, r, ms, t, {}).res = "AuthPanic"
    /\ \A id \in EscrowIds :
          /\ \A i \in IndexInputs, t \in Tokens :
                release_milestone(State, id, i, t, {}).res = "AuthPanic"
          /\ \A i \in IndexInputs, b \in Users :
                confirm_delivery(State, id, i, b, {}).res = "AuthPanic"
          /\ cancel_escrow(State, id, {}).res = "AuthPanic"
          /\ complete_escrow(State, id, {}).res = "AuthPanic"

\* milestones has an amount <= 0, and k is the position of the first one
FirstNonPositive(milestones) ==
    CHOOSE k \in 1..Len(milestones) :
        /\ milestones[k].amount <= 0
        /\ \A j \in 1..(k - 1) : milestones[j].amount > 0

C15_LengthLimit ==
    \A id \in EscrowIds, d \in Depositors, r \in Recipients, ms \in LongVecs,
       t \in Tokens, auth \in AuthSets :
        (~Exists(id) /\ d # r /\ d \in auth) =>
            LET out == create_escrow(State, id, d, r, ms, t, auth)
            IN /\ Len(ms) > 20 => out = Err("VectorTooLarge")
               /\ (/\ Len(ms) = 20
                   /\ \A i \in 1..Len(ms) : ms[i].amount > 0
                   /\ balances[t][d] >= PrefixSum(ms, Len(ms)))
                  => /\ out.res = "Ok"
                     /\ Len(out.st.persistent[id].val.milestones) = 20
               /\ out.res = "VectorTooLarge" => Len(ms) > 20

\* create_escrow has just refused a vector as too large, the escrow_id is
\* still free, and the other escrow_id holds an escrow of exactly 20
\* milestones
C15_Witness ==
    /\ result = [op |-> "create_escrow", res |-> "VectorTooLarge"]
    /\ \E id \in EscrowIds : ~Exists(id)
    /\ \E id \in EscrowIds :
          Exists(id) /\ Len(EscrowOf(id).milestones) = MAX_MILESTONES

\* C16: confirm_delivery on an existing escrow by a buyer who carries a
\* proof but is not the stored depositor fails with UnauthorizedAccess,
\* whatever the escrow's status and the milestone index (in range or not,
\* Pending or Released); the record and the balances stay as they were.
C16_OtherBuyerUnauthorized ==
    /\ \A id \in EscrowIds, i \in IndexInputs, b \in Users, auth \in AuthSets :
          (Exists(id) /\ b \in auth /\ b # EscrowOf(id).depositor) =>
              confirm_delivery(State, id, i, b, auth) = Err("UnauthorizedAccess")
    /\ result = [op |-> "confirm_delivery", res |-> "UnauthorizedAccess"] =>
          \E id \in EscrowIds : Exists(id)

\* confirm_delivery by the recipient has just failed with
\* UnauthorizedAccess while one escrow is Cancelled and the other is Active
\* with a Released milestone and funds still held
C16_Witness ==
    /\ result = [op |-> "confirm_delivery", res |-> "UnauthorizedAccess"]
    /\ \E id \in EscrowIds : Exists(id) /\ EscrowOf(id).status = "Cancelled"
    /\ \E id \in EscrowIds, i \in IndexInputs : ReleasedInActive(id, i)
    /\ \E id \in EscrowIds, i \in IndexInputs :
          /\ Exists(id)
          /\ confirm_delivery(State, id, i, EscrowOf(id).recipient,
                              {EscrowOf(id).recipient}).res = "UnauthorizedAccess"

\* C17: while initialize has never succeeded (no treasury is stored),
\* release_milestone with the depositor's proof on an Active escrow and the
\* index of a Pending milestone fails with TreasuryNotInitialized, whatever
\* token it names, having written and transferred nothing: the milestone
\* stays Pending, total_released is unchanged and no tokens move.
C17_ReleaseNeedsConfig ==
    /\ \A id \in EscrowIds, i \in IndexInputs, t \in Tokens, auth \in AuthSets :
          (/\ ~instance.treasury.some
           /\ Exists(id)
           /\ EscrowOf(id).status = "Active"
           /\ i \in Indices(EscrowOf(id))
           /\ StatusOf(EscrowOf(id), i) = "Pending"
           /\ EscrowOf(id).depositor \in auth)
          => release_milestone(State, id, i, t, auth) = Err("TreasuryNotInitialized")
    /\ result = [op |-> "release_milestone", res |-> "TreasuryNotInitialized"] =>
          /\ ~instance.treasury.some
          /\ events = << >>
          /\ \A t \in Tokens, u \in Treasuries \ Recipients : balances[t][u] = 0

\* release_milestone has just failed with TreasuryNotInitialized on a
\* funded escrow: nothing is released, the milestone is Pending and the
\* holding identity still has the deposit
C17_Witness ==
    /\ result = [op |-> "release_milestone", res |-> "TreasuryNotInitialized"]
    /\ ~instance.treasury.some
    /\ \E id \in EscrowIds :
          /\ Exists(id)
          /\ EscrowOf(id).status = "Active"
          /\ EscrowOf(id).total_amount = 300
          /\ EscrowOf(id).total_released = 0
          /\ StatusOf(EscrowOf(id), 0) = "Pending"
          /\ balances[EscrowOf(id).token][Holding] = 300
          /\ balances[EscrowOf(id).token][EscrowOf(id).recipient] = 0

\* C18: whenever a config is stored its fee_bps lies in [0, 10000].
\* initialize (with the treasury's proof) and update_fee (on a stored
\* config, with the stored treasury's proof) called with a fee below 0 or
\* above 10000 fail with InvalidFeeConfiguration, having written nothing,
\* and both accept the boundary values 0 and 10000.
C18_FeeWithinRange ==
    /\ instance.treasury.some <=> instance.fee_bps.some
    /\ instance.fee_bps.some =>
          0 <= instance.fee_bps.val /\ instance.fee_bps.val <= 10000
    /\ \A t \in Treasuries :
          /\ \A f \in {-10000, -1, 10001, 20000} :
                initialize(State, t, Some(f), {t}) = Err("InvalidFeeConfiguration")
          /\ \A f \in {0, 10000} :
                LET out == initialize(State, t, Some(f), {t})
                IN out.res = "Ok" /\ out.st.instance.fee_bps = Some(f)
    /\ instance.treasury.some =>
          /\ \A f \in {-10000, -1, 10001, 20000} :
                update_fee(State, f, {instance.treasury.val})
                    = Err("InvalidFeeConfiguration")
          /\ \A f \in {0, 10000} :
                LET out == update_fee(State, f, {instance.treasury.val})
                IN out.res = "Ok" /\ out.st.instance.fee_bps = Some(f)
    /\ result.res = "InvalidFeeConfiguration" => result.op \in {"initialize", "update_fee"}

\* update_fee has just refused an out-of-range fee and the config still
\* holds the boundary rate 10000 that was accepted before
C18_Witness ==
    /\ result = [op |-> "update_fee", res |-> "InvalidFeeConfiguration"]
    /\ instance.treasury.some
    /\ instance.fee_bps = Some(10000)

\* C19: after a successful initialize(treasury, fee_bps) get_config returns
\* exactly (treasury, fee_bps), with fee 50 when fee_bps was omitted; while
\* no initialize has succeeded (no treasury is stored) get_config fails
\* with TreasuryNotInitialized.
C19_GetConfigReturnsInitialized ==
    /\ \A t \in Treasuries, f \in OptFeeInputs \cup {Some(0)}, auth \in AuthSets :
          LET out == initialize(State, t, f, auth)
          IN out.res = "Ok" =>
                get_config(out.st)
                    = Ok(out.st, <<t, IF f.some THEN f.val ELSE 50>>)
    /\ ~instance.treasury.some => get_config(State) = Err("TreasuryNotInitialized")
    /\ result = [op |-> "initialize", res |-> "Ok"] => get_config(State).res = "Ok"
    /\ result = [op |-> "get_config", res |-> "Ok"] => instance.treasury.some
    /\ result = [op |-> "get_config", res |-> "TreasuryNotInitialized"] =>
          ~instance.treasury.some

\* get_config has just returned the treasury and the rate 10000 that
\* initialize or update_fee stored
C19_Witness ==
    /\ result = [op |-> "get_config", res |-> "Ok"]
    /\ instance.treasury.some
    /\ get_config(State).val = <<instance.treasury.val, 10000>>
    /\ \A id \in EscrowIds : ~Exists(id)

\* C20: update_fee fails with TreasuryNotInitialized when no config is
\* stored.  When one is stored it succeeds exactly when the call carries
\* the stored treasury's proof and the fee is in [0, 10000] (it aborts
\* without the proof, and fails with InvalidFeeConfiguration with it and a
\* fee out of range); it then overwrites the fee only: the treasury, every
\* escrow record, every balance and the events are unchanged, and a
\* release_milestone that follows pays amount - floor(amount * fee / 10000)
\* at the new rate.
C20_UpdateFeeOverwritesFeeOnly ==
    \A f \in FeeInputs \cup {0}, auth \in AuthSets :
        LET out == update_fee(State, f, auth)
        IN IF ~instance.treasury.some THEN out = Err("TreasuryNotInitialized")
           ELSE IF instance.treasury.val \notin auth THEN out = AuthPanic
           ELSE IF f < 0 \/ f > 10000 THEN out = Err("InvalidFeeConfiguration")
           ELSE /\ out.res = "Ok"
                /\ out.st = [State EXCEPT !.instance.fee_bps = Some(f)]
                /\ out.st.instance.treasury = instance.treasury
                /\ \A id \in EscrowIds, i \in IndexInputs, t \in Tokens :
                      Exists(id) =>
                          LET rel == release_milestone(out.st, id, i, t,
                                                       {EscrowOf(id).depositor})
                              a == AmountOf(EscrowOf(id), i)
                          IN rel.res = "Ok" =>
                                rel.st.events[Len(rel.st.events)].data
                                    = <<a - ((a * f) \div 10000), EscrowOf(id).recipient>>

\* update_fee has just stored the rate 10000 while an Active
\* escrow has a Pending milestone of 100 whose release will now pay the
\* whole amount to the treasury
C20_Witness ==
    /\ result = [op |-> "update_fee", res |-> "Ok"]
    /\ instance.fee_bps = Some(10000)
    /\ \E id \in EscrowIds, t \in Tokens :
          /\ Exists(id)
          /\ EscrowOf(id).recipient # instance.treasury.val
          /\ LET rel == release_milestone(State, id, 0, t, {EscrowOf(id).depositor})
             IN /\ rel.res = "Ok"
                /\ rel.st.balances[t][instance.treasury.val]
                      = balances[t][instance.treasury.val] + 100
                /\ rel.st.balances[t][EscrowOf(id).recipient]
                      = balances[t][EscrowOf(id).recipient]

\* C21: initialize is not guarded against re-initialization.  In a state
\* where a config (t1, f1) is stored, initialize(t2, f2) with t2's proof
\* alone and f2 in [0, 10000] succeeds and replaces the config by (t2, f2),
\* changing nothing else; after it update_fee needs t2's proof (t1's no
\* longer serves) and a release_milestone that charges a fee pays it to t2.
C21_ReinitializeReplacesConfig ==
    instance.treasury.some =>
        \A t2 \in Treasuries, f2 \in {0, 50, 10000} :
            LET out == initialize(State, t2, Some(f2), {t2})
                t1 == instance.treasury.val
            IN /\ out.res = "Ok"
               /\ out.st = [State EXCEPT !.instance =
                               [treasury |-> Some(t2), fee_bps |-> Some(f2)]]
               /\ update_fee(out.st, 50, {t2}).res = "Ok"
               /\ t1 # t2 => update_fee(out.st, 50, {t1}) = AuthPanic
               /\ \A id \in EscrowIds, i \in IndexInputs, t \in Tokens :
                     Exists(id) =>
                         LET rel == release_milestone(out.st, id, i, t,
                                                      {EscrowOf(id).depositor})
                             fee == (AmountOf(EscrowOf(id), i) * f2) \div 10000
                         IN (rel.res = "Ok" /\ fee > 0) =>
                               /\ rel.st.events[Len(rel.st.events) - 1].topic = "fee_coll"
                               /\ rel.st.events[Len(rel.st.events) - 1].data = <<fee, t2>>
                               /\ t2 # EscrowOf(id).recipient =>
                                     rel.st.balances[t][t2] = balances[t][t2] + fee

\* initialize has just made bob the treasury although carol was the
\* treasury before (she holds a fee, and is no recipient), and an Active
\* escrow still has a Pending milestone
C21_Witness ==
    /\ result = [op |-> "initialize", res |-> "Ok"]
    /\ instance.treasury = Some("bob")
    /\ \E t \in Tokens : balances[t]["carol"] > 0
    /\ \E id \in EscrowIds, i \in IndexInputs :
          /\ Exists(id)
          /\ EscrowOf(id).status = "Active"
          /\ i \in Indices(EscrowOf(id))
          /\ StatusOf(EscrowOf(id), i) = "Pending"

\* C22: in every state, and so after every successful create_escrow,
\* release_milestone, confirm_delivery, cancel_escrow and complete_escrow,
\* get_escrow returns the stored record (its status, total_released and
\* milestone statuses as the mutation left them) and get_state the status
\* of that same record; for an escrow_id never created both fail with
\* EscrowNotFound; and neither changes the state.
C22_GettersReturnStoredRecord ==
    /\ \A id \in EscrowIds :
          IF Exists(id)
          THEN /\ get_escrow(State, id) = Ok(State, EscrowOf(id))
               /\ get_state(State, id) = Ok(State, get_escrow(State, id).val.status)
          ELSE /\ get_escrow(State, id) = Err("EscrowNotFound")
               /\ get_state(State, id) = Err("EscrowNotFound")
    /\ (result.op = "create_escrow" /\ result.res = "Ok") =>
          \E id \in EscrowIds :
              /\ get_state(State, id).res = "Ok"
              /\ get_state(State, id).val = "Active"
              /\ get_escrow(State, id).val.total_released = 0
    /\ (result.op \in PayoutOps /\ result.res = "Ok") =>
          \E id \in EscrowIds, i \in IndexInputs :
              /\ get_state(State, id).res = "Ok"
              /\ i \in Indices(get_escrow(State, id).val)
              /\ StatusOf(get_escrow(State, id).val, i) = "Released"
              /\ get_escrow(State, id).val.total_released > 0
    /\ (result.op = "cancel_escrow" /\ result.res = "Ok") =>
          \E id \in EscrowIds :
              get_state(State, id).res = "Ok" /\ get_state(State, id).val = "Cancelled"
    /\ (result.op = "complete_escrow" /\ result.res = "Ok") =>
          \E id \in EscrowIds :
              get_state(State, id).res = "Ok" /\ get_state(State, id).val = "Completed"
    /\ result.op \in {"get_escrow", "get_state"} => result.res \in {"Ok", "EscrowNotFound"}

\* get_state has just answered for a state in which one escrow is
\* Completed with both milestones Released and the other escrow_id has
\* never been used
C22_Witness ==
    /\ result = [op |-> "get_state", res |-> "Ok"]
    /\ \E id \in EscrowIds :
          /\ get_state(State, id).res = "Ok"
          /\ get_state(State, id).val = "Completed"
          /\ get_escrow(State, id).val.total_released = 200
          /\ \A i \in Indices(EscrowOf(id)) :
                StatusOf(get_escrow(State, id).val, i) = "Released"
    /\ \E id \in EscrowIds : get_escrow(State, id).res = "EscrowNotFound"

\* the first failure, in the order of the claim, that milestone i of escrow
\* id presents to a payout call, "none" when it presents none
FirstFailure(id, i) ==
    IF ~Exists(id) THEN "EscrowNotFound"
    ELSE IF EscrowOf(id).status # "Active" THEN "EscrowNotActive"
    ELSE IF i \notin Indices(EscrowOf(id)) THEN "MilestoneNotFound"
    ELSE IF StatusOf(EscrowOf(id), i) = "Released" THEN "MilestoneAlreadyReleased"
    ELSE "none"

\* C23: when several failure conditions hold at once a payout call that
\* carries the proof it is asked for reports the first in this order:
\* release_milestone - EscrowNotFound, EscrowNotActive, MilestoneNotFound,
\* MilestoneAlreadyReleased, TreasuryNotInitialized; confirm_delivery -
\* EscrowNotFound, UnauthorizedAccess, EscrowNotActive, MilestoneNotFound,
\* MilestoneAlreadyReleased.
C23_FirstFailureReported ==
    \A id \in EscrowIds, i \in IndexInputs, auth \in AuthSets :
        /\ \A t \in Tokens :
              (Exists(id) => EscrowOf(id).depositor \in auth) =>
                  LET out == release_milestone(State, id, i, t, auth)
                  IN IF FirstFailure(id, i) # "none"
                     THEN out = Err(FirstFailure(id, i))
                     ELSE IF ~instance.treasury.some
                     THEN out = Err("TreasuryNotInitialized")
                     ELSE out.res \in {"Ok", "TransferPanic"}
        /\ \A b \in Users :
              b \in auth =>
                  LET out == confirm_delivery(State, id, i, b, auth)
                  IN IF ~Exists(id) THEN out = Err("EscrowNotFound")
                     ELSE IF b # EscrowOf(id).depositor
                     THEN out = Err("UnauthorizedAccess")
                     ELSE IF FirstFailure(id, i) # "none"
                     THEN out = Err(FirstFailure(id, i))
                     ELSE out.res \in {"Ok", "TransferPanic"}

\* release_milestone has just failed with MilestoneAlreadyReleased
\* although no config is stored, while the other escrow is Cancelled and a
\* release with an index out of its range reports EscrowNotActive
C23_Witness ==
    /\ result = [op |-> "release_milestone", res |-> "MilestoneAlreadyReleased"]
    /\ ~instance.treasury.some
    /\ \E id \in EscrowIds, i \in IndexInputs : ReleasedInActive(id, i)
    /\ \E id \in EscrowIds, i \in IndexInputs, t \in Tokens :
          /\ Exists(id)
          /\ EscrowOf(id).status = "Cancelled"
          /\ i \notin Indices(EscrowOf(id))
          /\ release_milestone(State, id, i, t, {EscrowOf(id).depositor})
                = Err("EscrowNotActive")

\* C24 (runs of ValidateSpec): create_escrow with the depositor's proof
\* fails with SelfDealing when depositor = recipient, even if the escrow_id
\* is used or the vector is invalid (too long, a non-positive amount, an
\* overflowing sum), and with distinct parties and a used escrow_id it
\* fails with EscrowAlreadyExists whatever the vector is.
C24_SelfDealingThenExistence ==
    \A id \in EscrowIds, d \in Depositors, r \in Recipients, ms \in LongVecs,
       t \in Tokens, auth \in AuthSets :
        d \in auth =>
            LET out == create_escrow(State, id, d, r, ms, t, auth)
            IN /\ d = r => out = Err("SelfDealing")
               /\ (d # r /\ Exists(id)) => out = Err("EscrowAlreadyExists")
               /\ (d # r /\ ~Exists(id)) =>
                     out.res \notin {"SelfDealing", "EscrowAlreadyExists"}

\* create_escrow has just failed with SelfDealing in a state where every
\* escrow_id is used, and a call with distinct parties, a used escrow_id and
\* a vector of 21 milestones reports EscrowAlreadyExists
C24_Witness ==
    /\ result = [op |-> "create_escrow", res |-> "SelfDealing"]
    /\ \A id \in EscrowIds : Exists(id)
    /\ \E id \in EscrowIds, ms \in LongVecs, t \in Tokens :
          /\ Len(ms) > MAX_MILESTONES
          /\ create_escrow(State, id, "alice", "alice", ms, t, {"alice"})
                = Err("SelfDealing")
          /\ create_escrow(State, id, "alice", "bob", ms, t, {"alice"})
                = Err("EscrowAlreadyExists")

\* no stored milestone is Disputed
NoDisputed ==
    \A id \in EscrowIds :
        Exists(id) =>
            \A i \in Indices(EscrowOf(id)) :
                StatusOf(EscrowOf(id), i) \in {"Pending", "Released"}

\* every stored milestone keeps its status or goes from Pending to Released
PendingToReleasedOnly ==
    \A id \in EscrowIds :
        Exists(id) =>
            /\ persistent'[id].some
            /\ Len(persistent'[id].val.milestones) = Len(EscrowOf(id).milestones)
            /\ \A i \in Indices(EscrowOf(id)) :
                  \/ StatusOf(persistent'[id].val, i) = StatusOf(EscrowOf(id), i)
                  \/ /\ StatusOf(EscrowOf(id), i) = "Pending"
                     /\ StatusOf(persistent'[id].val, i) = "Released"

\* C25: across any sequence of operations a milestone's status changes only
\* from Pending to Released: a Released milestone never becomes Pending
\* again, and no reachable state holds a Disputed milestone, although
\* create_escrow is handed milestones marked Disputed and Released.
C25_PendingToReleasedOnly ==
    []NoDisputed /\ [][PendingToReleasedOnly]_vars

\* an escrow created from two milestones supplied as Disputed has its first
\* milestone Released by a payout and its second still Pending
C25_Witness ==
    /\ result.op \in PayoutOps
    /\ result.res = "Ok"
    /\ \E id \in EscrowIds :
          /\ Exists(id)
          /\ Len(EscrowOf(id).milestones) = 2
          /\ AmountOf(EscrowOf(id), 0) = 100
          /\ AmountOf(EscrowOf(id), 1) = 100
          /\ StatusOf(EscrowOf(id), 0) = "Released"
          /\ StatusOf(EscrowOf(id), 1) = "Pending"

\* no call on a stored escrow that lacks its depositor's proof succeeds
NoSuccessWithoutDepositor ==
    \A id \in EscrowIds, auth \in AuthSets :
        (Exists(id) /\ EscrowOf(id).depositor \notin auth) =>
            /\ \A i \in IndexInputs, t \in Tokens :
                  release_milestone(State, id, i, t, auth) = AuthPanic
            /\ \A i \in IndexInputs, b \in Users :
                  confirm_delivery(State, id, i, b, auth)
                      = IF b \in auth THEN Err("UnauthorizedAccess") ELSE AuthPanic
            /\ cancel_escrow(State, id, auth) = AuthPanic
            /\ complete_escrow(State, id, auth) = AuthPanic

\* a stored record changes, or the holding identity pays out, only in a
\* successful release_milestone, confirm_delivery, cancel_escrow or
\* complete_escrow
ChangeOnlyByDepositorCall ==
    (\/ \E id \in EscrowIds : Exists(id) /\ persistent'[id] # persistent[id]
     \/ \E t \in Tokens : balances'[t][Holding] < balances[t][Holding])
    => /\ result'.res = "Ok"
       /\ result'.op \in {"release_milestone", "confirm_delivery",
                          "cancel_escrow", "complete_escrow"}

\* C26: every successful release_milestone, confirm_delivery, cancel_escrow
\* and complete_escrow on an escrow carries the proof of its stored
\* depositor, and nothing else changes a stored record or pays out of the
\* holding identity: while the depositor gives no proof after creation the
\* record never changes and nothing is paid out, whatever the recipient,
\* the treasury or a third identity calls.
C26_DepositorProofNeeded ==
    []NoSuccessWithoutDepositor /\ [][ChangeOnlyByDepositorCall]_vars

\* a release_milestone has just aborted for want of the depositor's proof
\* on an untouched escrow that the depositor could release at once: the
\* same call by the recipient or by the treasury aborts
C26_Witness ==
    /\ result = [op |-> "release_milestone", res |-> "AuthPanic"]
    /\ instance.treasury.some
    /\ \E id \in EscrowIds :
          /\ Exists(id)
          /\ EscrowOf(id).status = "Active"
          /\ EscrowOf(id).total_released = 0
          /\ balances[EscrowOf(id).token][Holding] = EscrowOf(id).total_amount
          /\ release_milestone(State, id, 0, EscrowOf(id).token,
                               {EscrowOf(id).depositor}).res = "Ok"
          /\ release_milestone(State, id, 0, EscrowOf(id).token,
                               {EscrowOf(id).recipient}) = AuthPanic
          /\ release_milestone(State, id, 0, EscrowOf(id).token,
                               {instance.treasury.val}) = AuthPanic

\* what release_milestone of milestone i of escrow id in token t is to make
\* of state st when its fee is 0
ReleasedWithoutFee(st, id, i, t) ==
    LET escrow == st.persistent[id].val
        a == AmountOf(escrow, i)
    IN [st EXCEPT
          !.balances[t][Holding] = @ - a,
          !.balances[t][escrow.recipient] = @ + a,
          !.events = Append(@, [topic |-> "released", escrow_id |-> id,
                                milestone_index |-> i,
                                data |-> <<a, escrow.recipient>>]),
          !.persistent[id] = Some([escrow EXCEPT
                                      !.milestones[i + 1].status = "Released",
                                      !.total_released = @ + a])]

\* C27: a release_milestone whose fee is 0 (the rate is 0, or amount * rate
\* is below BPS_DENOMINATOR), called with the depositor's proof on a Pending
\* milestone of an Active escrow while the holding identity has the amount
\* in the token named, succeeds: the recipient receives the full amount,
\* the treasury receives nothing, the only event is the release event, the
\* milestone is Released and total_released has grown by the amount.
C27_ZeroFeeStillReleases ==
    \A id \in EscrowIds, i \in IndexInputs, t \in Tokens :
        (/\ instance.treasury.some
         /\ FirstFailure(id, i) = "none"
         /\ balances[t][Holding] >= AmountOf(EscrowOf(id), i))
        => LET auth == {EscrowOf(id).depositor}
               a == AmountOf(EscrowOf(id), i)
               zero == update_fee(State, 0, {instance.treasury.val})
           IN /\ a * instance.fee_bps.val < BPS_DENOMINATOR =>
                    release_milestone(State, id, i, t, auth)
                        = Ok(ReleasedWithoutFee(State, id, i, t), Unit)
              /\ zero.res = "Ok"
              /\ release_milestone(zero.st, id, i, t, auth)
                    = Ok(ReleasedWithoutFee(zero.st, id, i, t), Unit)

\* release_milestone has just released 100 at 50 bps: the fee is 0, the
\* only event is the release event carrying the full amount, the recipient
\* holds 100 and the treasury, another identity, nothing
C27_Witness ==
    /\ result = [op |-> "release_milestone", res |-> "Ok"]
    /\ instance.fee_bps = Some(50)
    /\ Len(events) = 1
    /\ events[1].topic = "released"
    /\ events[1].data[1] = 100
    /\ instance.treasury.val # events[1].data[2]
    /\ \A t \in Tokens : balances[t][instance.treasury.val] = 0
    /\ \E t \in Tokens : balances[t][events[1].data[2]] = 100
    /\ \E id \in EscrowIds :
          /\ Exists(id)
          /\ EscrowOf(id).total_released = 100
          /\ StatusOf(EscrowOf(id), events[1].milestone_index) = "Released"

\* the event release_milestone publishes under topic for milestone i of
\* escrow id
Event(topic, id, i, data) ==
    [topic |-> topic, escrow_id |-> id, milestone_index |-> i, data |-> data]

\* no event is pending when an invocation starts
NoEventBeforeCall == result = Idle => events = << >>

\* the events a call publishes: a successful release_milestone those of one
\* milestone that was Pending and is now Released, any other call none
EventsOfCall ==
    (result = Idle /\ result' # Idle) =>
        IF result'.op = "release_milestone" /\ result'.res = "Ok"
        THEN \E id \in EscrowIds :
                /\ Exists(id)
                /\ \E i \in Indices(EscrowOf(id)) :
                      LET escrow == EscrowOf(id)
                          amount == AmountOf(escrow, i)
                          fee == ExpectedFee(amount, instance.fee_bps.val)
                          fee_coll == Event("fee_coll", id, i,
                                            <<fee, instance.treasury.val>>)
                          released == Event("released", id, i,
                                            <<amount - fee, escrow.recipient>>)
                      IN /\ StatusOf(escrow, i) = "Pending"
                         /\ StatusOf(persistent'[id].val, i) = "Released"
                         /\ fee > 0 => events' = <<fee_coll, released>>
                         /\ fee = 0 => events' = <<released>>
        ELSE events' = << >>

\* C28: a successful release_milestone publishes exactly one release event
\* keyed (escrow_id, milestone_index) carrying (payout, recipient), preceded
\* by exactly one fee-collection event with the same key carrying
\* (fee, treasury) if and only if fee > 0; every other call, and every
\* failed call, publishes nothing.  The milestone of the key is Pending
\* before the call and Released after it, and a Released milestone of a
\* stored record stays Released, so no key has a second release event.
C28_EventsOfRelease ==
    []NoEventBeforeCall /\ [][EventsOfCall /\ PendingToReleasedOnly]_vars

\* release_milestone under a rate of 10000 bps has just published the
\* fee-collection event carrying the whole amount and, after it, the release
\* event of the same key carrying a payout of 0
C28_Witness ==
    /\ result = [op |-> "release_milestone", res |-> "Ok"]
    /\ instance.fee_bps = Some(BPS_DENOMINATOR)
    /\ Len(events) = 2
    /\ events[1].topic = "fee_coll" /\ events[1].data = <<100, instance.treasury.val>>
    /\ events[2].topic = "released" /\ events[2].data[1] = 0
    /\ events[1].escrow_id = events[2].escrow_id
    /\ events[1].milestone_index = events[2].milestone_index
    /\ StatusOf(EscrowOf(events[2].escrow_id), events[2].milestone_index) = "Released"

\* C29: release_milestone makes its payout and its fee transfer in the
\* token_address it is called with and never reads the token stored with
\* the escrow: a successful call whose token_address differs from the
\* stored token lowers the holding balance of token_address by the amount,
\* leaves every balance of the stored token as it was, marks the milestone
\* Released and raises total_released by the amount.
C29_ReleasePaysInSuppliedToken ==
    \A id \in EscrowIds, i \in IndexInputs, t \in Tokens, auth \in AuthSets :
        LET out == release_milestone(State, id, i, t, auth)
            escrow == EscrowOf(id)
            after == out.st.persistent[id].val
        IN (out.res = "Ok" /\ t # escrow.token) =>
              /\ Delta(out, t, Holding) = - AmountOf(escrow, i)
              /\ out.st.balances[escrow.token] = balances[escrow.token]
              /\ StatusOf(escrow, i) = "Pending"
              /\ StatusOf(after, i) = "Released"
              /\ after.total_released
                    = escrow.total_released + AmountOf(escrow, i)

\* release_milestone has just released the only milestone of an escrow
\* whose deposit of 100 is still with the holding identity in the stored
\* token, the payout having left the holding balance of the other token,
\* which is now 0
C29_Witness ==
    /\ result = [op |-> "release_milestone", res |-> "Ok"]
    /\ \E id \in EscrowIds :
          /\ Exists(id)
          /\ events[Len(events)].escrow_id = id
          /\ EscrowOf(id).total_amount = 100
          /\ EscrowOf(id).total_released = 100
          /\ balances[EscrowOf(id).token][Holding] >= 100
          /\ \E t \in Tokens \ {EscrowOf(id).token} : balances[t][Holding] = 0
          /\ \A id2 \in EscrowIds \ {id} :
                Exists(id2) => EscrowOf(id2).total_released = 0

(***************************************************************************)
(* Amounts at the edge of the integer width: a depositor who holds the     *)
(* largest amount of one token, milestones of 1, of an amount whose        *)
(* product with the highest rate overflows, and of the largest amount.     *)
(***************************************************************************)
OverflowInputs ==
    {Milestone(1, "Pending", "work"), Milestone(200000, "Pending", "work"),
     Milestone(I128_MAX, "Pending", "work")}

OverflowVecs == UNION {[1..n -> OverflowInputs] : n \in 1..MaxLen}

OverflowFees == {DEFAULT_FEE_BPS, BPS_DENOMINATOR}

InitOverflow ==
    /\ instance = [treasury |-> None, fee_bps |-> None]
    /\ persistent = [id \in EscrowIds |-> None]
    /\ balances = [t \in Tokens |-> [a \in Accounts |->
                      IF a \in Depositors /\ t = "tokA" THEN I128_MAX ELSE 0]]
    /\ events = << >>
    /\ result = Idle
    /\ sums = [fees |-> [t \in Tokens |-> [u \in Users |-> 0]],
               payouts |-> [t \in Tokens |-> [u \in Users |-> 0]]]

NextOverflow ==
    \/ \E t \in Treasuries, f \in OverflowFees, auth \in AuthSets :
          Initialize(t, Some(f), auth)
    \/ \E id \in EscrowIds, d \in Depositors, r \in Recipients, ms \in OverflowVecs,
          auth \in AuthSets : CreateEscrow(id, d, r, ms, "tokA", auth)
    \/ \E id \in EscrowIds, i \in IndexInputs, auth \in AuthSets :
          ReleaseMilestone(id, i, "tokA", auth)
    \/ Acknowledge

OverflowSpec == InitOverflow /\ [][NextOverflow]_vars

\* the product amount * fee_bps of a positive amount and rate is above the
\* largest integer
ProductOverflows(amount, fee_bps) == amount > I128_MAX \div fee_bps

\* every stored total is the plain sum it stands for and every balance is
\* within 0..I128_MAX
TotalsAreSums ==
    /\ \A id \in EscrowIds :
          Exists(id) =>
              LET escrow == EscrowOf(id)
              IN /\ escrow.total_amount
                       = PrefixSum(escrow.milestones, Len(escrow.milestones))
                 /\ escrow.total_amount \in 1..I128_MAX
                 /\ escrow.total_released = ReleasedSum(escrow)
                 /\ escrow.total_released \in 0..escrow.total_amount
    /\ \A t \in Tokens, a \in Accounts : balances[t][a] \in 0..I128_MAX

\* the fee and the payout a successful release_milestone transfers are
\* floor(amount * fee_bps / 10000) of a product that did not overflow and
\* amount - fee
TransfersAreExact ==
    \A id \in EscrowIds, i \in IndexInputs, t \in Tokens, auth \in AuthSets :
        LET out == release_milestone(State, id, i, t, auth)
            a == AmountOf(EscrowOf(id), i)
            b == instance.fee_bps.val
            tr == instance.treasury.val
            r == EscrowOf(id).recipient
        IN out.res = "Ok" =>
              /\ ~ProductOverflows(a, b)
              /\ LET fee == (a * b) \div BPS_DENOMINATOR
                 IN /\ 0 <= fee /\ fee <= a
                    /\ Delta(out, t, Holding) = - a
                    /\ r # tr => Delta(out, t, r) = a - fee /\ Delta(out, t, tr) = fee
                    /\ r = tr => Delta(out, t, r) = a

\* C30 (runs of OverflowSpec, integers of the width of I128_MAX): a
\* create_escrow of positive amounts whose running sum exceeds I128_MAX
\* fails with InvalidMilestoneAmount; a release_milestone of a Pending
\* milestone whose amount * fee_bps exceeds I128_MAX fails with
\* InvalidMilestoneAmount before any write, the milestone staying Pending;
\* and no stored total_amount or total_released, no balance and no
\* transferred fee or payout is a wrapped value.
C30_OverflowIsInvalidMilestoneAmount ==
    /\ \A id \in EscrowIds, d \in Depositors, r \in Recipients,
          ms \in OverflowVecs, t \in Tokens :
          (/\ ~Exists(id)
           /\ d # r
           /\ PrefixSum(ms, Len(ms)) > I128_MAX)
          => create_escrow(State, id, d, r, ms, t, {d})
                = Err("InvalidMilestoneAmount")
    /\ \A id \in EscrowIds, i \in IndexInputs, t \in Tokens :
          (/\ FirstFailure(id, i) = "none"
           /\ instance.treasury.some
           /\ ProductOverflows(AmountOf(EscrowOf(id), i), instance.fee_bps.val))
          => release_milestone(State, id, i, t, {EscrowOf(id).depositor})
                = Err("InvalidMilestoneAmount")
    /\ TotalsAreSums
    /\ TransfersAreExact

\* release_milestone has just failed with InvalidMilestoneAmount on an
\* escrow of two milestones: the one of 1 is released, the other is Pending,
\* its product with the stored rate overflows and its amount is still with
\* the holding identity
C30_Witness ==
    /\ result = [op |-> "release_milestone", res |-> "InvalidMilestoneAmount"]
    /\ \E id \in EscrowIds :
          /\ Exists(id)
          /\ EscrowOf(id).total_released = 1
          /\ \E i \in Indices(EscrowOf(id)) :
                /\ StatusOf(EscrowOf(id), i) = "Pending"
                /\ ProductOverflows(AmountOf(EscrowOf(id), i), instance.fee_bps.val)
                /\ balances["tokA"][Holding] >= AmountOf(EscrowOf(id), i)

(***************************************************************************)
(* A token contract that calls back.  The token named in a payout is code  *)
(* the caller chooses; inside the transfer it is asked for it can invoke   *)
(* one of the two payout operations (reenter), once, with the proofs of    *)
(* the outer call.  The nested invocation runs in full on the storage as   *)
(* it is at that moment; when it fails its own writes are undone and the   *)
(* transfer goes on.                                                       *)
(***************************************************************************)
NoReentry == "none"
ReentryInputs == {NoReentry} \cup PayoutOps

\* the state after the callback and the outcome of the nested invocation
Reenter(st, reenter, escrow_id, milestone_index, token_address, auth) ==
    IF reenter = NoReentry THEN [st |-> st, res |-> NoReentry]
    ELSE LET nested ==
                 IF reenter = "release_milestone"
                 THEN release_milestone(st, escrow_id, milestone_index,
                                        token_address, auth)
                 ELSE confirm_delivery(st, escrow_id, milestone_index,
                                       st.persistent[escrow_id].val.depositor, auth)
         IN [st |-> IF nested.res = "Ok" THEN nested.st ELSE st,
             res |-> nested.res]

\* release_milestone whose payout transfer calls back: the escrow loaded at
\* the start is marked and saved after the transfers
release_milestone_reentered(st, escrow_id, milestone_index, token_address, auth, reenter) ==
    LET storage_key == get_storage_key(escrow_id)
    IN IF ~st.persistent[storage_key].some THEN Err("EscrowNotFound")
       ELSE LET escrow == st.persistent[storage_key].val
            IN IF escrow.depositor \notin auth THEN AuthPanic
               ELSE IF escrow.status # "Active" THEN Err("EscrowNotActive")
               ELSE IF milestone_index >= Len(escrow.milestones) THEN Err("MilestoneNotFound")
               ELSE LET milestone == escrow.milestones[milestone_index + 1]
                        config == get_config(st)
                    IN IF is_released(milestone) THEN Err("MilestoneAlreadyReleased")
                       ELSE IF config.res # "Ok" THEN config
                       ELSE LET treasury == config.val[1]
                                fee_bps == config.val[2]
                                calc == calculate_fee(milestone.amount, fee_bps)
                            IN IF calc.res # "Ok" THEN calc
                               ELSE LET fee == calc.fee
                                        payout == checked_sub(milestone.amount, fee)
                                    IN IF ~payout.some THEN Err("InvalidMilestoneAmount")
                                       ELSE IF ~CanTransfer(st.balances, token_address, Holding, payout.val)
                                            THEN TransferPanic
                                       ELSE LET paid == Transfer(st.balances, token_address, Holding,
                                                                 escrow.recipient, payout.val)
                                                cb == Reenter([st EXCEPT !.balances = paid], reenter,
                                                              escrow_id, milestone_index,
                                                              token_address, auth)
                                                updated == mark_released(escrow, milestone_index)
                                                fee_coll == [topic |-> "fee_coll", escrow_id |-> escrow_id,
                                                             milestone_index |-> milestone_index,
                                                             data |-> <<fee, treasury>>]
                                                released == [topic |-> "released", escrow_id |-> escrow_id,
                                                             milestone_index |-> milestone_index,
                                                             data |-> <<payout.val, escrow.recipient>>]
                                            IN IF fee_due(fee)
                                                  /\ ~CanTransfer(cb.st.balances, token_address, Holding, fee)
                                               THEN TransferPanic
                                               ELSE IF ~updated.some THEN Err("InvalidMilestoneAmount")
                                               ELSE [res |-> "Ok", val |-> Unit, nested |-> cb.res,
                                                     st |-> [cb.st EXCEPT
                                                       !.balances = IF fee_due(fee)
                                                                    THEN Transfer(@, token_address, Holding,
                                                                                  treasury, fee)
                                                                    ELSE @,
                                                       !.events = IF fee_due(fee)
                                                                  THEN Append(Append(@, fee_coll), released)
                                                                  ELSE Append(@, released),
                                                       !.persistent[storage_key] = updated]]

\* confirm_delivery whose transfer calls back: the escrow is marked in
\* memory before the transfer and saved after it
confirm_delivery_reentered(st, escrow_id, milestone_index, buyer, auth, reenter) ==
    LET storage_key == get_storage_key(escrow_id)
    IN IF ~st.persistent[storage_key].some THEN Err("EscrowNotFound")
       ELSE LET escrow == st.persistent[storage_key].val
            IN IF buyer \notin auth THEN AuthPanic
               ELSE IF escrow.depositor # buyer THEN Err("UnauthorizedAccess")
               ELSE IF escrow.status # "Active" THEN Err("EscrowNotActive")
               ELSE IF milestone_index >= Len(escrow.milestones) THEN Err("MilestoneNotFound")
               ELSE LET milestone == escrow.milestones[milestone_index + 1]
                        updated == mark_released(escrow, milestone_index)
                    IN IF is_released(milestone) THEN Err("MilestoneAlreadyReleased")
                       ELSE IF ~updated.some THEN Err("InvalidMilestoneAmount")
                       ELSE IF ~CanTransfer(st.balances, escrow.token, Holding, milestone.amount)
                            THEN TransferPanic
                       ELSE LET paid == Transfer(st.balances, escrow.token, Holding,
                                                 escrow.recipient, milestone.amount)
                                cb == Reenter([st EXCEPT !.balances = paid], reenter,
                                              escrow_id, milestone_index, escrow.token, auth)
                            IN [res |-> "Ok", val |-> Unit, nested |-> cb.res,
                                st |-> [cb.st EXCEPT !.persistent[storage_key] = updated]]

ReleaseMilestoneReentered(escrow_id, milestone_index, token_address, auth, reenter) ==
    /\ Commit("release_milestone",
              release_milestone_reentered(State, escrow_id, milestone_index,
                                          token_address, auth, reenter))
    /\ UNCHANGED sums

ConfirmDeliveryReentered(escrow_id, milestone_index, buyer, auth, reenter) ==
    /\ Commit("confirm_delivery",
              confirm_delivery_reentered(State, escrow_id, milestone_index,
                                         buyer, auth, reenter))
    /\ UNCHANGED sums

\* the operations that move tokens, with tokens that call back
NextReentry ==
    \/ \E t \in Treasuries, f \in OptFeeInputs, auth \in AuthSets :
          Initialize(t, f, auth)
    \/ \E id \in EscrowIds, d \in Depositors, r \in Recipients, ms \in MilestoneVecs,
          t \in Tokens, auth \in AuthSets : CreateEscrow(id, d, r, ms, t, auth)
    \/ \E id \in EscrowIds, i \in IndexInputs, t \in Tokens, auth \in AuthSets,
          reenter \in ReentryInputs :
          ReleaseMilestoneReentered(id, i, t, auth, reenter)
    \/ \E id \in EscrowIds, i \in IndexInputs, b \in Users, auth \in AuthSets,
          reenter \in ReentryInputs :
          ConfirmDeliveryReentered(id, i, b, auth, reenter)
    \/ Acknowledge

ReentrySpec == Init /\ [][NextReentry]_vars

\* C31 (runs of ReentrySpec): when the token, inside a transfer of
\* release_milestone or confirm_delivery, re-enters a payout operation for
\* the same escrow_id and milestone_index, the nested call fails (the
\* claim: because it finds the milestone Released), the holding balance
\* falls by the milestone's amount once, and total_released is the sum of
\* the Released amounts.
C31_ReenteredPayoutFails ==
    \A id \in EscrowIds, i \in IndexInputs, auth \in AuthSets, reenter \in PayoutOps :
        /\ \A t \in Tokens :
              LET out == release_milestone_reentered(State, id, i, t, auth, reenter)
              IN out.res = "Ok" =>
                    /\ out.nested # "Ok"
                    /\ SumOver([t2 \in Tokens |-> Delta(out, t2, Holding)], Tokens)
                          = - AmountOf(EscrowOf(id), i)
                    /\ out.st.persistent[id].val.total_released
                          = ReleasedSum(out.st.persistent[id].val)
        /\ \A b \in Users :
              LET out == confirm_delivery_reentered(State, id, i, b, auth, reenter)
              IN out.res = "Ok" =>
                    /\ out.nested # "Ok"
                    /\ SumOver([t2 \in Tokens |-> Delta(out, t2, Holding)], Tokens)
                          = - AmountOf(EscrowOf(id), i)
                    /\ out.st.persistent[id].val.total_released
                          = ReleasedSum(out.st.persistent[id].val)

\* what the holding identity still owes in token t: total_amount less
\* total_released, over the stored escrows whose token is t
OutstandingIn(t) ==
    SumOver([id \in EscrowIds |->
                IF Exists(id) /\ EscrowOf(id).token = t
                THEN EscrowOf(id).total_amount - EscrowOf(id).total_released
                ELSE 0], EscrowIds)

\* C32: in every reachable state, for each token T, the holding identity's
\* balance of T equals the sum over the stored escrows whose token is T of
\* total_amount - total_released (the holding balance changing only through
\* the contract's operations), so that the deposit of one escrow never pays
\* a milestone of another.
C32_HoldingIsOutstandingPerToken ==
    \A t \in Tokens : balances[t][Holding] = OutstandingIn(t)

AllPending(escrow) == \A i \in Indices(escrow) : StatusOf(escrow, i) = "Pending"

\* what a Cancelled and a Completed record look like, and that neither
\* payout operation succeeds on one, whoever calls it with whatever token
EndedShape ==
    \A id \in EscrowIds :
        Exists(id) =>
            LET escrow == EscrowOf(id)
            IN /\ escrow.status = "Cancelled" =>
                     escrow.total_released = 0 /\ AllPending(escrow)
               /\ escrow.status = "Completed" =>
                     /\ AllReleased(escrow)
                     /\ escrow.total_released = escrow.total_amount
               /\ escrow.status # "Active" =>
                     \A i \in IndexInputs, auth \in AuthSets :
                        /\ \A t \in Tokens :
                              release_milestone(State, id, i, t, auth).res # "Ok"
                        /\ \A b \in Users :
                              confirm_delivery(State, id, i, b, auth).res # "Ok"

\* a record that is Cancelled or Completed never becomes Active again and
\* keeps its milestones and its total_released
EndedStaysEnded ==
    \A id \in EscrowIds :
        (Exists(id) /\ EscrowOf(id).status # "Active") =>
            /\ persistent'[id].some
            /\ persistent'[id].val.status # "Active"
            /\ persistent'[id].val.milestones = EscrowOf(id).milestones
            /\ persistent'[id].val.total_released = EscrowOf(id).total_released

\* C33: in every reachable state a Cancelled escrow has total_released = 0
\* and every milestone Pending, and a Completed escrow has every milestone
\* Released and total_released = total_amount; no payout is made for an
\* escrow once it is Cancelled or Completed.
C33_EndedEscrowsAreSettled ==
    []EndedShape /\ [][EndedStaysEnded]_vars

\* a payout has just been refused with EscrowNotActive while one escrow is
\* Cancelled with its funded milestones Pending and the other Completed
\* with two milestones Released
C33_Witness ==
    /\ result.op \in PayoutOps
    /\ result.res = "EscrowNotActive"
    /\ \E id \in EscrowIds :
          /\ Exists(id)
          /\ EscrowOf(id).status = "Cancelled"
          /\ EscrowOf(id).total_amount > 0
    /\ \E id \in EscrowIds :
          /\ Exists(id)
          /\ EscrowOf(id).status = "Completed"
          /\ Len(EscrowOf(id).milestones) = 2
          /\ EscrowOf(id).total_released > 0

(***************************************************************************)
(* A depositor who settles its escrows: it reads the outcome of the last   *)
(* invocation and calls confirm_delivery on the first milestone still      *)
(* Pending, or complete_escrow when none is.  Nobody calls cancel_escrow.  *)
(***************************************************************************)
FirstPending(escrow) ==
    CHOOSE i \in Indices(escrow) :
        /\ StatusOf(escrow, i) = "Pending"
        /\ \A j \in Indices(escrow) : j < i => StatusOf(escrow, j) # "Pending"

\* the call the depositor of escrow id makes next, and its outcome
SettleCall(st, id) ==
    LET escrow == st.persistent[id].val
        depositor == escrow.depositor
    IN IF AllReleased(escrow)
       THEN [op |-> "complete_escrow",
             out |-> complete_escrow(st, id, {depositor})]
       ELSE [op |-> "confirm_delivery",
             out |-> confirm_delivery(st, id, FirstPending(escrow),
                                      depositor, {depositor})]

Settle(id) ==
    /\ Exists(id)
    /\ EscrowOf(id).status = "Active"
    /\ LET call == SettleCall([State EXCEPT !.events = << >>], id)
       IN /\ result' = [op |-> call.op, res |-> call.out.res]
          /\ IF call.out.res = "Ok"
             THEN /\ instance' = call.out.st.instance
                  /\ persistent' = call.out.st.persistent
                  /\ balances' = call.out.st.balances
                  /\ events' = call.out.st.events
             ELSE /\ events' = << >>
                  /\ UNCHANGED <<instance, persistent, balances>>
    /\ UNCHANGED sums

NextLive ==
    \/ \E t \in Treasuries, auth \in AuthSets :
          Initialize(t, Some(DEFAULT_FEE_BPS), auth)
    \/ \E id \in EscrowIds, d \in Depositors, r \in Recipients, ms \in MilestoneVecs,
          t \in Tokens, auth \in AuthSets : CreateEscrow(id, d, r, ms, t, auth)
    \/ \E id \in EscrowIds, i \in IndexInputs, t \in Tokens, auth \in AuthSets :
          ReleaseMilestone(id, i, t, auth)
    \/ \E id \in EscrowIds, i \in IndexInputs, b \in Users, auth \in AuthSets :
          ConfirmDelivery(id, i, b, auth)
    \/ \E id \in EscrowIds, auth \in AuthSets : CompleteEscrow(id, auth)
    \/ Acknowledge
    \/ \E id \in EscrowIds : Settle(id)

\* the depositor of every Active escrow keeps settling it
LiveSpec ==
    Init /\ [][NextLive]_vars /\ \A id \in EscrowIds : WF_vars(Settle(id))

IsActive(id) == Exists(id) /\ EscrowOf(id).status = "Active"
IsCompleted(id) == Exists(id) /\ EscrowOf(id).status = "Completed"

\* the token transfer of the depositor's next call for escrow id fails
SettleTransferFails(id) ==
    IsActive(id) /\ SettleCall(State, id).out.res = "TransferPanic"

\* C34 (runs of LiveSpec, without cancel_escrow): an Active escrow whose
\* depositor keeps calling confirm_delivery on each milestone still Pending
\* and then complete_escrow reaches status Completed, unless a token
\* transfer of these calls fails; each milestone goes from Pending to
\* Released once, and this holds with and without a platform config.
C34_ActiveLeadsToCompleted ==
    /\ \A id \in EscrowIds :
          IsActive(id) ~> (IsCompleted(id) \/ SettleTransferFails(id))
    /\ [][PendingToReleasedOnly]_vars

\* with no platform config stored, complete_escrow has just completed an
\* escrow whose two funded milestones were paid out
C34_Witness ==
    /\ result = [op |-> "complete_escrow", res |-> "Ok"]
    /\ ~instance.treasury.some
    /\ \E id \in EscrowIds :
          /\ IsCompleted(id)
          /\ Len(EscrowOf(id).milestones) = 2
          /\ EscrowOf(id).total_released = EscrowOf(id).total_amount
          /\ EscrowOf(id).total_amount > 0

\* outcome out of an operation called with escrow_id a has written neither
\* the record of another escrow_id nor the platform config, also when the
\* call failed after its writes
Isolated(out, a) ==
    "st" \in DOMAIN out =>
        /\ \A b \in EscrowIds \ {a} : out.st.persistent[b] = persistent[b]
        /\ out.st.instance = instance

\* every call of an escrow operation, whatever its arguments and outcome
IsolatedCalls ==
    \A a \in EscrowIds, auth \in AuthSets :
        /\ \A d \in Depositors, r \in Recipients, ms \in MilestoneVecs, t \in Tokens :
              Isolated(create_escrow(State, a, d, r, ms, t, auth), a)
        /\ \A i \in IndexInputs, t \in Tokens :
              Isolated(release_milestone(State, a, i, t, auth), a)
        /\ \A i \in IndexInputs, b \in Users :
              Isolated(confirm_delivery(State, a, i, b, auth), a)
        /\ Isolated(cancel_escrow(State, a, auth), a)
        /\ Isolated(complete_escrow(State, a, auth), a)

\* a step changes the record of at most one escrow_id, and the platform
\* config only in initialize and update_fee
OneRecordPerStep ==
    /\ \A a, b \in EscrowIds :
          (persistent'[a] # persistent[a] /\ persistent'[b] # persistent[b]) => a = b
    /\ instance' # instance => result'.op \in {"initialize", "update_fee"}

\* C35: an operation called with escrow_id A (create_escrow,
\* release_milestone, confirm_delivery, cancel_escrow, complete_escrow),
\* successful or not, leaves the stored record of every other escrow_id
\* unchanged, and no escrow operation changes the platform config.
C35_RecordsAreIsolated ==
    []IsolatedCalls /\ [][OneRecordPerStep]_vars

\* release_milestone has just released a milestone of one escrow while the
\* other escrow_id holds an Active record of two Pending milestones with
\* nothing released, and the platform config is stored
C35_Witness ==
    /\ result = [op |-> "release_milestone", res |-> "Ok"]
    /\ instance.treasury.some
    /\ \E a \in EscrowIds :
          /\ events[Len(events)].escrow_id = a
          /\ EscrowOf(a).total_released > 0
          /\ \E b \in EscrowIds \ {a} :
                /\ Exists(b)
                /\ EscrowOf(b).status = "Active"
                /\ Len(EscrowOf(b).milestones) = 2
                /\ AllPending(EscrowOf(b))
                /\ EscrowOf(b).total_released = 0

====
